---- MODULE Spec2Model ----
(***************************************************************************)
(* Detection pipeline of Acdnsys: EnhancedDetectionService                 *)
(* (api/services/enhanced_detection_service.py), the batch endpoint        *)
(* (api/routes/enhanced_detection.py), the plate validation it uses       *)
(* (api/services/validation_service.py) and the registry routes that       *)
(* delete and activate plates and users (api/routes/plates.py, users.py).  *)
(*                                                                         *)
(* Strings are sequences of one-character strings.  Provider confidences   *)
(* are integers in percent; similarity ratios are exact fractions          *)
(* [n, d].  Coroutines run one at a time (asyncio): `cur` is the running   *)
(* call, 0 when the event loop is idle; a call gives up the loop only at   *)
(* asyncio.sleep and when it finishes.                                     *)
(***************************************************************************)
EXTENDS Integers, Sequences, FiniteSets, TLC

\* ------------------------------------------------------------------ bounds
\* Calls of process_detection_with_retry in a run of the whole pipeline.
MaxCalls == 1
\* Calls in a run of the cache scenarios.
CacheCalls == 2
\* Longest accepted batch in a run of the batch endpoint.
BatchCalls == 2
\* The clock advances by TickMinutes at a time, MaxTicks times at most.
MaxTicks == 3
TickMinutes == 15
\* Calls in a run of the matching scenarios, and plates in their registry.
MatchCalls == 1
MaxPlates == 2
\* Calls in a run of the cache-clearing scenarios.
ClearCalls == 2
\* Calls in a run against a full cache.
EvictCalls == 2
FailureCalls == 2
AverageCalls == 2
CameraCalls == 2

\* --------------------------------------------------------------- constants
\* self.max_retries (MAX_DETECTION_RETRIES, default "3").
max_retries == 3
\* self.cache_duration in minutes (CACHE_DURATION_MINUTES, default "30").
cache_duration == 30
\* self.confidence_threshold (CONFIDENCE_THRESHOLD, default "0.6"), percent.
confidence_threshold == 60
\* _send_sms_with_retry(..., max_retries: int = 2).
sms_max_retries == 2
\* len(requests) > 20 in process_batch_detection.
MaxBatchSize == 20
\* min(max_concurrent, 10) in process_batch_detection.
MaxConcurrentCap == 10
\* Defaults of the three extraction strategies (0.9, 0.8, 0.7), percent.
StrConfidence == 90
PlateFieldConfidence == 80
TextFieldConfidence == 70
\* self.similarity_threshold (SIMILARITY_THRESHOLD, default "0.75").
similarity_threshold == [n |-> 3, d |-> 4]

\* A record field that is missing; Python's True and False where a field may
\* also be missing; the None (or empty) plate text.
Absent == "absent"
PyTrue == "True"
PyFalse == "False"
NoPlate == <<>>

\* ----------------------------------------------------------------- strings
Letters == {"A", "B", "G", "I", "O", "R", "S", "Z"}
Digits == {"0", "1", "2", "3", "4", "5", "6", "7", "8", "9"}
Whitespace == {" "}

\* str.upper() on the characters the model uses.
UpperChar(c) ==
    CASE c = "g" -> "G"
      [] c = "r" -> "R"
      [] c = "a" -> "A"
      [] c = "s" -> "S"
      [] OTHER -> c

Upper(s) == [i \in 1..Len(s) |-> UpperChar(s[i])] \o <<>>

RECURSIVE LStrip(_)
LStrip(s) == IF s # <<>> /\ Head(s) \in Whitespace THEN LStrip(Tail(s)) ELSE s

RECURSIVE RStrip(_)
RStrip(s) ==
    IF s # <<>> /\ s[Len(s)] \in Whitespace THEN RStrip(SubSeq(s, 1, Len(s) - 1)) ELSE s

\* str.strip()
Strip(s) == LStrip(RStrip(s))

\* re.sub(r'[-\s]+', '-', re.sub(r'\s+', ' ', s)): every run of separators
\* becomes one hyphen.
RECURSIVE NormalizeSeparators(_)
NormalizeSeparators(s) ==
    IF s = <<>> THEN <<>>
    ELSE IF Head(s) \in Whitespace \cup {"-"}
         THEN LET rest == NormalizeSeparators(Tail(s))
              IN  IF rest # <<>> /\ Head(rest) = "-" THEN rest ELSE <<"-">> \o rest
         ELSE <<Head(s)>> \o NormalizeSeparators(Tail(s))

\* str.startswith(prefix)
StartsWith(s, prefix) ==
    Len(s) >= Len(prefix) /\ SubSeq(s, 1, Len(prefix)) = prefix

AllIn(s, lo, hi, set) == \A i \in lo..hi : s[i] \in set

\* ^[A-Z]{1,3}[-\s]*\d{3,4}[-\s]*[A-Z\d]{1,3}$ on a normalized plate; the four
\* ghana_plate_patterns all match only strings this pattern matches.
MatchesGhanaPlate(p) ==
    \E a \in 1..3, s1 \in 0..1, d \in 3..4, s2 \in 0..1, r \in 1..3 :
        /\ Len(p) = a + s1 + d + s2 + r
        /\ AllIn(p, 1, a, Letters)
        /\ (s1 = 1 => p[a + 1] = "-")
        /\ AllIn(p, a + s1 + 1, a + s1 + d, Digits)
        /\ (s2 = 1 => p[a + s1 + d + 1] = "-")
        /\ AllIn(p, a + s1 + d + s2 + 1, Len(p), Letters \cup Digits)

\* ValidationService.validate_license_plate(plate, "GH"): the formatted plate,
\* or NoPlate when is_valid is False.
validate_license_plate(plate) ==
    IF Strip(plate) = <<>> THEN NoPlate
    ELSE LET normalized_plate == NormalizeSeparators(Upper(Strip(plate)))
         IN  IF Len(normalized_plate) < 3 \/ Len(normalized_plate) > 15 THEN NoPlate
             ELSE IF MatchesGhanaPlate(normalized_plate) THEN normalized_plate
             ELSE NoPlate

\* EnhancedDetectionService._clean_and_validate_plate
clean_and_validate_plate(raw_plate) ==
    IF raw_plate = <<>> \/ Strip(raw_plate) = <<>> THEN NoPlate
    ELSE validate_license_plate(raw_plate)

\* ------------------------------------------------------------- similarity
\* Length of the common run of a[i..ahi] and b[j..bhi] starting at i and j.
RECURSIVE CommonRun(_, _, _, _, _, _)
CommonRun(a, b, i, j, ahi, bhi) ==
    IF i <= ahi /\ j <= bhi /\ a[i] = b[j]
    THEN 1 + CommonRun(a, b, i + 1, j + 1, ahi, bhi)
    ELSE 0

\* difflib.SequenceMatcher.find_longest_match(alo, ahi, blo, bhi) without junk:
\* the longest common block, the earliest in a and then in b among the longest.
find_longest_match(a, b, alo, ahi, blo, bhi) ==
    LET blocks == {<<i, j, CommonRun(a, b, i, j, ahi, bhi)>> : i \in alo..ahi, j \in blo..bhi}
        size == CHOOSE k \in {x[3] : x \in blocks} : \A y \in blocks : y[3] <= k
        longest == {x \in blocks : x[3] = size}
        first == CHOOSE i \in {x[1] : x \in longest} : \A y \in longest : i <= y[1]
        firstRow == {x \in longest : x[1] = first}
    IN  IF blocks = {} THEN <<alo, blo, 0>>
        ELSE CHOOSE x \in firstRow : \A y \in firstRow : x[2] <= y[2]

\* Sum of the sizes of SequenceMatcher.get_matching_blocks().
RECURSIVE MatchingSize(_, _, _, _, _, _)
MatchingSize(a, b, alo, ahi, blo, bhi) ==
    LET m == find_longest_match(a, b, alo, ahi, blo, bhi)
    IN  IF m[3] = 0 THEN 0
        ELSE m[3] + MatchingSize(a, b, alo, m[1] - 1, blo, m[2] - 1)
                  + MatchingSize(a, b, m[1] + m[3], ahi, m[2] + m[3], bhi)

\* SequenceMatcher(None, a, b).ratio() = 2.0 * matches / (len(a) + len(b)),
\* 1.0 when both are empty; kept as the fraction n/d.
Ratio(a, b) ==
    IF Len(a) + Len(b) = 0 THEN [n |-> 1, d |-> 1]
    ELSE [n |-> 2 * MatchingSize(a, b, 1, Len(a), 1, Len(b)), d |-> Len(a) + Len(b)]

\* Comparisons of two fractions with positive denominators.
FracGeq(x, y) == x.n * y.d >= y.n * x.d
FracGt(x, y) == x.n * y.d > y.n * x.d
FracMax(x, y) == IF FracGeq(x, y) THEN x ELSE y
One == [n |-> 1, d |-> 1]

\* EnhancedDetectionService._calculate_similarity
calculate_similarity(str1, str2) == Ratio(Upper(str1), Upper(str2))

\* The table without the pair of the zero and the letter O.
ocr_substitutions_without_zero ==
    << <<"1", "I">>, <<"I", "1">>,
       <<"5", "S">>, <<"S", "5">>, <<"6", "G">>, <<"G", "6">>,
       <<"8", "B">>, <<"B", "8">>, <<"2", "Z">>, <<"Z", "2">> >>

\* ocr_substitutions in dict order: each entry is one str.replace(original,
\* substitute) over the whole text, applied one after the other.
ocr_substitutions ==
    << <<"0", "O">>, <<"O", "0">>, <<"1", "I">>, <<"I", "1">>,
       <<"5", "S">>, <<"S", "5">>, <<"6", "G">>, <<"G", "6">>,
       <<"8", "B">>, <<"B", "8">>, <<"2", "Z">>, <<"Z", "2">> >>

Replace(text, original, substitute) ==
    [i \in 1..Len(text) |-> IF text[i] = original THEN substitute ELSE text[i]] \o <<>>

RECURSIVE ApplySubstitutions(_, _)
ApplySubstitutions(text, k) ==
    IF k > Len(ocr_substitutions) THEN text
    ELSE ApplySubstitutions(
             Replace(text, ocr_substitutions[k][1], ocr_substitutions[k][2]), k + 1)

normalize_for_ocr(text) == ApplySubstitutions(Upper(text), 1)

\* EnhancedDetectionService._calculate_pattern_similarity
calculate_pattern_similarity(detected, stored) ==
    Ratio(normalize_for_ocr(detected), normalize_for_ocr(stored))

\* ---------------------------------------------------------------- matching
\* users_table.get(UserQuery.id == user_id): the records with that id, first
\* one first; the empty sequence stands for None.
GetUser(users, user_id) == SelectSeq(users, LAMBDA u : u.id = user_id)

\* A scan over every plate record, active or not.
ActivePlatesAll(plates) == plates

\* plates_table.search(PlateQuery.is_active == True): a record without the
\* field does not match the query.
ActivePlates(plates) == SelectSeq(plates, LAMBDA p : p.is_active = PyTrue)

\* user_record.get("is_active", True)
UserIsActive(user) == user.is_active \in {Absent, PyTrue}

NewMatch(stored_plate, user, confidence, exact) ==
    [plate_number |-> stored_plate, user_id |-> user.id, confidence |-> confidence,
     exact_match |-> exact, similarity_score |-> confidence]

\* Index of next((m for m in matches if m.user_id == user_id), None); 0 for None.
ExistingMatch(matches, user_id) ==
    IF \E i \in 1..Len(matches) : matches[i].user_id = user_id
    THEN CHOOSE i \in 1..Len(matches) :
             /\ matches[i].user_id = user_id
             /\ \A j \in 1..(i - 1) : matches[j].user_id # user_id
    ELSE 0

\* A fuzzy strategy that keeps a candidate only on a perfect score.
FuzzyStepPerfectOnly(matches, detected_plate, stored_plate, user) ==
    LET similarity == calculate_similarity(detected_plate, stored_plate)
    IN  IF similarity = One
        THEN Append(matches, NewMatch(stored_plate, user, similarity, FALSE))
        ELSE matches

\* Strategy 2 of _find_enhanced_matches for one candidate.
FuzzyStep(matches, detected_plate, stored_plate, user) ==
    LET similarity == calculate_similarity(detected_plate, stored_plate)
    IN  IF FracGeq(similarity, similarity_threshold)
        THEN Append(matches, NewMatch(stored_plate, user, similarity, FALSE))
        ELSE matches

\* A pattern strategy that only upgrades an entry the owner has already.
PatternStepUpgradeOnly(matches, detected_plate, stored_plate, user) ==
    LET similarity == calculate_similarity(detected_plate, stored_plate)
        pattern_similarity == calculate_pattern_similarity(detected_plate, stored_plate)
        e == ExistingMatch(matches, user.id)
    IN  IF FracGeq(pattern_similarity, similarity_threshold)
           /\ FracGt(pattern_similarity, similarity)
           /\ e # 0
        THEN [matches EXCEPT ![e].confidence = FracMax(@, pattern_similarity),
                             ![e].similarity_score = pattern_similarity]
        ELSE matches

\* Strategy 3 of _find_enhanced_matches for one candidate.
PatternStep(matches, detected_plate, stored_plate, user) ==
    LET similarity == calculate_similarity(detected_plate, stored_plate)
        pattern_similarity == calculate_pattern_similarity(detected_plate, stored_plate)
        e == ExistingMatch(matches, user.id)
    IN  IF FracGeq(pattern_similarity, similarity_threshold)
           /\ FracGt(pattern_similarity, similarity)
        THEN IF e # 0
             THEN [matches EXCEPT ![e].confidence = FracMax(@, pattern_similarity),
                                  ![e].similarity_score = pattern_similarity]
             ELSE Append(matches, NewMatch(stored_plate, user, pattern_similarity, FALSE))
        ELSE matches

\* A loop body whose exact match does not `continue`: the candidate goes on
\* through the similarity strategies.
ScanStepNoContinue(matches, detected_plate, plate_record, users) ==
    LET stored_plate == plate_record.plate
        found == GetUser(users, plate_record.user_id)
        user == Head(found)
        exact == IF Upper(detected_plate) = Upper(stored_plate)
                 THEN Append(matches, NewMatch(stored_plate, user, One, TRUE))
                 ELSE matches
    IN  IF stored_plate = <<>> THEN matches
        ELSE IF found = <<>> THEN matches
        ELSE IF ~UserIsActive(user) THEN matches
        ELSE PatternStep(FuzzyStep(exact, detected_plate, stored_plate, user),
                         detected_plate, stored_plate, user)

\* The body of the loop over all_plates for one plate_record.
ScanStep(matches, detected_plate, plate_record, users) ==
    LET stored_plate == plate_record.plate
        found == GetUser(users, plate_record.user_id)
        user == Head(found)
    IN  IF stored_plate = <<>> THEN matches
        ELSE IF found = <<>> THEN matches
        ELSE IF ~UserIsActive(user) THEN matches
        ELSE IF Upper(detected_plate) = Upper(stored_plate)
             THEN Append(matches, NewMatch(stored_plate, user, One, TRUE))
        ELSE PatternStep(FuzzyStep(matches, detected_plate, stored_plate, user),
                         detected_plate, stored_plate, user)

RECURSIVE ScanPlates(_, _, _, _)
ScanPlates(matches, detected_plate, records, users) ==
    IF records = <<>> THEN matches
    ELSE ScanPlates(ScanStep(matches, detected_plate, Head(records), users),
                    detected_plate, Tail(records), users)

\* A sort key without exact_match.
KeyGreaterByConfidence(x, y) == FracGt(x.confidence, y.confidence)

\* key=lambda x: (x.exact_match, x.confidence): whether x sorts strictly
\* before y under reverse=True.
KeyGreater(x, y) ==
    \/ x.exact_match /\ ~y.exact_match
    \/ x.exact_match = y.exact_match /\ FracGt(x.confidence, y.confidence)

\* list.sort(key=..., reverse=True) is stable: equal keys keep their order.
RECURSIVE InsertMatch(_, _)
InsertMatch(sorted, x) ==
    IF sorted = <<>> THEN <<x>>
    ELSE IF KeyGreater(x, Head(sorted)) THEN <<x>> \o sorted
    ELSE <<Head(sorted)>> \o InsertMatch(Tail(sorted), x)

RECURSIVE SortMatches(_, _)
SortMatches(sorted, rest) ==
    IF rest = <<>> THEN sorted
    ELSE SortMatches(InsertMatch(sorted, Head(rest)), Tail(rest))

\* EnhancedDetectionService._find_enhanced_matches
find_enhanced_matches(detected_plate, plates, users) ==
    SortMatches(<<>>, ScanPlates(<<>>, detected_plate, ActivePlates(plates), users))

\* A scan that answers a failure of the record store with an empty list.
scan_registry_swallowing(store_ok, detected_plate, plates, users) ==
    [raised |-> FALSE,
     matches |-> IF store_ok THEN find_enhanced_matches(detected_plate, plates, users)
                 ELSE <<>>]

\* `await self._find_enhanced_matches(plate_number)`: the function has no
\* try/except, so an exception of plates_table.search or users_table.get
\* leaves it; otherwise the list it returns.
scan_registry(store_ok, detected_plate, plates, users) ==
    [raised |-> ~store_ok,
     matches |-> IF store_ok THEN find_enhanced_matches(detected_plate, plates, users)
                 ELSE <<>>]

\* ------------------------------------------------------------------ inputs
\* Image references: empty, not HTTP(S), and two that pass validation.
UrlEmpty == <<>>
UrlFtp == <<"f", "t", "p", ":", "/", "/", "a">>
UrlA == <<"h", "t", "t", "p", ":", "/", "/", "a">>
UrlB == <<"h", "t", "t", "p", "s", ":", "/", "/", "b">>
Urls == {UrlEmpty, UrlFtp, UrlA, UrlB}

\* Plate texts a provider may report.
RawRegistered == <<"g", "r", " ", "1", "0", "3", "4", " ", "2", "1">>
RawLookAlike == <<"G", "R", "-", "1", "0", "3", "4", "-", "2", "I">>
RawUnknown == <<"A", "S", "-", "9", "8", "7", "6", "-", "2", "2">>
RawGarbage == <<"?", "?", "?">>
PlateRegistered == <<"G", "R", "-", "1", "0", "3", "4", "-", "2", "1">>
PlateSample == <<"A", "S", "-", "9", "8", "7", "6", "-", "2", "2">>
\* Two more registered plates: one digit away from PlateRegistered, and
\* PlateRegistered as an OCR engine confuses it (1/I, 0/O, 2/Z).
PlateNear == <<"G", "R", "-", "1", "0", "3", "4", "-", "2", "2">>
PlateConfusable == <<"G", "R", "-", "I", "O", "3", "4", "-", "Z", "I">>

\* A provider response (the decoded JSON object).  A key the dict may lack is
\* a sequence: <<>> when the key is missing, <<v>> when it holds v.  "outputs"
\* holds the list outputs[0]["output"] (empty also when outputs itself is []).
Response(error, outputs, plate, text, confidence) ==
    [error |-> error, outputs |-> outputs, plate |-> plate, text |-> text,
     confidence |-> confidence]
DictData(text, confidence) == [type |-> "dict", text |-> text, confidence |-> confidence]
StrData(text) == [type |-> "str", text |-> text, confidence |-> <<>>]

EmptyResponse == Response(<<>>, <<>>, <<>>, <<>>, <<>>)

\* What the primary provider may answer on one call, besides raising.
ProviderResponses ==
    { EmptyResponse,
      Response(<<"quota">>, << <<DictData(RawRegistered, <<95>>)>> >>, <<>>, <<>>, <<>>),
      Response(<<>>, <<>>, <<RawRegistered>>, <<>>, <<>>),
      Response(<<>>, << <<DictData(RawRegistered, <<95>>)>> >>, <<>>, <<>>, <<>>),
      Response(<<>>, << <<DictData(RawRegistered, <<50>>)>> >>, <<>>, <<>>, <<>>),
      Response(<<>>, << <<DictData(RawUnknown, <<95>>)>> >>, <<>>, <<>>, <<>>),
      Response(<<>>, << <<DictData(RawGarbage, <<95>>)>> >>, <<>>, <<>>, <<>>),
      Response(<<>>, << <<StrData(RawLookAlike)>> >>, <<>>, <<>>, <<>>),
      Response(<<>>, << <<>> >>, <<>>, <<>>, <<>>),
      Response(<<>>, << <<>> >>, <<RawRegistered>>, <<>>, <<40>>) }

\* dict.get(key, default)
Get(field, default) == IF field = <<>> THEN default ELSE field[1]

\* ------------------------------------------------------- provider gateway
\* `not response`: the dict has no key.
IsEmptyDict(response) ==
    /\ response.error = <<>>
    /\ response.outputs = <<>>
    /\ response.plate = <<>>
    /\ response.text = <<>>
    /\ response.confidence = <<>>

\* A validation that only refuses the empty dict.
is_valid_response_nonempty(response) == ~IsEmptyDict(response)

\* EnhancedDetectionService._is_valid_response
is_valid_response(response) ==
    IF IsEmptyDict(response) THEN FALSE
    ELSE IF response.error # <<>> THEN FALSE
    ELSE IF response.outputs = <<>> THEN FALSE
    ELSE TRUE

\* A retry loop that runs one iteration too many.
InRetryRangeInclusive(attempt) == attempt <= max_retries

\* `for attempt in range(self.max_retries)`: whether attempt (0-based) runs.
InRetryRange(attempt) == attempt < max_retries

\* `if attempt < self.max_retries - 1`: back off and try again.
BackoffBeforeRetry(attempt) == attempt < max_retries - 1

\* A fallback that is tried on every attempt, the first one included.
TryBackupFromFirst(backup_api_key, attempt) == backup_api_key

\* `if self.backup_api_key and attempt >= 1`
TryBackup(backup_api_key, attempt) == backup_api_key /\ attempt >= 1

\* _call_backup_api returns {}.
call_backup_api == EmptyResponse

\* ------------------------------------------------------------- extraction
Extracted(plate, confidence) == [plate |-> plate, confidence |-> confidence]

\* Strategy 1 of _extract_plate_from_response: <<>> when it returns nothing.
ExtractStandard(response) ==
    LET first_output == Get(response.outputs, <<>>)
    IN  IF first_output = <<>> THEN <<>>
        ELSE LET plate_data == first_output[1]
                 cleaned_plate == clean_and_validate_plate(plate_data.text)
             IN  IF plate_data.type = "dict"
                 THEN IF plate_data.text # <<>> /\ cleaned_plate # NoPlate
                      THEN <<Extracted(cleaned_plate, Get(plate_data.confidence, 0))>>
                      ELSE <<>>
                 ELSE IF cleaned_plate # NoPlate
                      THEN <<Extracted(cleaned_plate, StrConfidence)>>
                      ELSE <<>>

\* Strategies 2 and 3: a top-level "plate" or "text" field with its default
\* confidence.
ExtractField(response, field, default) ==
    IF field = <<>> THEN <<>>
    ELSE IF clean_and_validate_plate(field[1]) # NoPlate
         THEN <<Extracted(clean_and_validate_plate(field[1]),
                          Get(response.confidence, default))>>
         ELSE <<>>

\* EnhancedDetectionService._extract_plate_from_response
extract_plate_from_response(response) ==
    LET s1 == ExtractStandard(response)
        s2 == ExtractField(response, response.plate, PlateFieldConfidence)
        s3 == ExtractField(response, response.text, TextFieldConfidence)
    IN  IF s1 # <<>> THEN s1[1]
        ELSE IF s2 # <<>> THEN s2[1]
        ELSE IF s3 # <<>> THEN s3[1]
        ELSE Extracted(NoPlate, 0)

\* A usability check that ignores the confidence.
NoPlateOnly(plate_number, confidence) == plate_number = NoPlate

\* `if not plate_number or confidence < self.confidence_threshold: raise`
NoUsableDetection(plate_number, confidence) ==
    plate_number = NoPlate \/ confidence < confidence_threshold

\* ------------------------------------------------------------- validation
HttpPrefix == <<"h", "t", "t", "p", ":", "/", "/">>
HttpsPrefix == <<"h", "t", "t", "p", "s", ":", "/", "/">>

\* A validation that only requires the reference to be present.
validate_required_only(image_url) ==
    IF image_url = <<>> THEN "Image URL is required" ELSE "ok"

\* EnhancedDetectionService._validate_detection_request: the ValueError it
\* raises, "ok" when it returns.
validate_detection_request(image_url) ==
    IF image_url = <<>> THEN "Image URL is required"
    ELSE IF ~(StartsWith(image_url, HttpPrefix) \/ StartsWith(image_url, HttpsPrefix))
         THEN "Image URL must be a valid HTTP/HTTPS URL"
    ELSE "ok"

\* ------------------------------------------------------------------ cache
\* The dict detection_cache as the sequence of its items in insertion order.
CacheLimit == 100
CacheEvict == 20

\* EnhancedDetectionService._generate_cache_key: the digest of the reference.
generate_cache_key(image_url) == <<"md5", image_url>>

CacheIndex(cache, cache_key) ==
    IF \E i \in 1..Len(cache) : cache[i].key = cache_key
    THEN CHOOSE i \in 1..Len(cache) : cache[i].key = cache_key
    ELSE 0

\* A freshness test that still accepts an entry whose age equals the TTL.
CacheFreshInclusive(cache_time, t) == t - cache_time <= cache_duration

\* `datetime.utcnow() - cache_time < timedelta(minutes=self.cache_duration)`
CacheFresh(cache_time, t) == t - cache_time < cache_duration

\* _get_cached_result: whether it returns the cached result.
CacheHit(cache, cache_key, t) ==
    /\ CacheIndex(cache, cache_key) # 0
    /\ CacheFresh(cache[CacheIndex(cache, cache_key)].timestamp, t)

\* _get_cached_result: the cache it leaves (an expired entry is deleted).
CacheAfterGet(cache, cache_key, t) ==
    IF CacheIndex(cache, cache_key) # 0 /\ ~CacheHit(cache, cache_key, t)
    THEN SelectSeq(cache, LAMBDA e : e.key # cache_key)
    ELSE cache

\* A cleanup that drops the first entries in dict order, whatever their age.
CacheKeptByPosition(cache) ==
    IF Len(cache) > CacheLimit
    THEN {i \in 1..Len(cache) : i > CacheEvict}
    ELSE 1..Len(cache)

\* Position of entry i in sorted(items, key=timestamp): the sort is stable.
CacheRank(cache, i) ==
    Cardinality({j \in 1..Len(cache) :
        \/ cache[j].timestamp < cache[i].timestamp
        \/ cache[j].timestamp = cache[i].timestamp /\ j <= i})

\* Indices that survive the cleanup of _cache_result.
CacheKept(cache) ==
    IF Len(cache) > CacheLimit
    THEN {i \in 1..Len(cache) : CacheRank(cache, i) > CacheEvict}
    ELSE 1..Len(cache)

RECURSIVE KeepIndices(_, _, _)
KeepIndices(cache, kept, i) ==
    IF i > Len(cache) THEN <<>>
    ELSE (IF i \in kept THEN <<cache[i]>> ELSE <<>>) \o KeepIndices(cache, kept, i + 1)

\* A _cache_result that stores nothing.
cache_result_dropping(cache, cache_key, result, t) == cache

\* EnhancedDetectionService._cache_result
cache_result(cache, cache_key, result, t) ==
    LET entry == [key |-> cache_key, result |-> result, timestamp |-> t]
        i == CacheIndex(cache, cache_key)
        put == IF i # 0 THEN [cache EXCEPT ![i] = entry] ELSE Append(cache, entry)
    IN  KeepIndices(put, CacheKept(put), 1)

\* ------------------------------------------------------------------ state
VARIABLES
    config,               \* roboflow_api_key / backup_api_key: configured or not
    now,                  \* datetime.utcnow(), in minutes
    cur,                  \* the call running on the event loop, 0 when idle
    calls,                \* the calls of process_detection_with_retry
    detection_cache,      \* self.detection_cache
    metrics,              \* self.metrics
    detections_table,     \* db.table("detections"), rows in insertion order
    notifications_table,  \* db.table("notifications")
    plates_table,         \* db.table("plates")
    users_table,          \* db.table("users")
    batch,                \* the call of process_batch_detection
    cache_cleared         \* clear_cache ran and no result was cached since

vars == <<config, now, cur, calls, detection_cache, metrics, detections_table,
          notifications_table, plates_table, users_table, batch, cache_cleared>>

Calls == DOMAIN calls

DETECTION_FAILED == <<"DETECTION_FAILED">>
BATCH_ERROR == <<"BATCH_ERROR">>

\* models/detection.py DetectionResult; matched_user_id 0 stands for None.
DetectionResult(id, plate_number, confidence, camera_id, location, image_url) ==
    [id |-> id, plate_number |-> plate_number, confidence |-> confidence,
     camera_id |-> camera_id, location |-> location,
     image_url |-> image_url, matched_user_id |-> 0, notification_sent |-> FALSE]

\* An optional string is a sequence: <<>> for None, <<s>> for the string s.
DefaultCamera == <<"default">>

\* A camera taken from the request as it is.
camera_or_default_as_given(camera_id) == camera_id

\* `request.camera_id or "default"`: None and the empty string give "default".
camera_or_default(camera_id) ==
    IF camera_id = <<>> \/ camera_id = <<"">> THEN DefaultCamera ELSE camera_id

NoResult == DetectionResult(0, <<>>, 0, <<>>, <<>>, <<>>)
NoError == [type |-> "", message |-> "", cause |-> ""]
Error(type, message, cause) == [type |-> type, message |-> message, cause |-> cause]

\* One call of process_detection_with_retry: its local variables (image_url,
\* id, attempt, last_error, response, detection, best, sms_attempt, sms_sent),
\* its place (pc), what it returned or raised (result, error), and a record of
\* what it did: tries and failed_tries (iterations of the retry loop, and those
\* that failed), last_outcome (how the latest iteration ended), primary_calls
\* and backup_calls (calls to each provider), extracted (what extraction
\* returned), scans (registry scans), sms_calls (send_sms calls), cache_seen
\* and checked_at (the cache entry found for its key, and when it looked),
\* cached_at (when it cached its result), stored and insert_failed (its
\* detection row was inserted / the record store refused it), matches (the
\* list _find_enhanced_matches returned), seen_plates and seen_users (the
\* registry it scanned), notification_stored (its notification row was
\* inserted), scan_failed (the record store failed during its scan), waits
\* and sms_waits (the seconds of each asyncio.sleep of the two retry loops),
\* start_time and processing_time (what _update_metrics measures), camera_id
\* and location (the optional fields of the request).
IdleCall ==
    [pc |-> "idle", image_url |-> <<>>, batch_index |-> 0, id |-> 0, attempt |-> 0,
     last_error |-> "", response |-> EmptyResponse, detection |-> NoResult,
     best |-> <<>>, sms_attempt |-> 0, sms_sent |-> FALSE,
     result |-> NoResult, error |-> NoError,
     tries |-> 0, failed_tries |-> 0, last_outcome |-> "", primary_calls |-> 0,
     backup_calls |-> 0, extracted |-> <<>>, scans |-> 0, sms_calls |-> 0,
     cache_seen |-> <<>>, checked_at |-> 0, cached_at |-> 0,
     stored |-> FALSE, insert_failed |-> FALSE,
     matches |-> <<>>, seen_plates |-> <<>>, seen_users |-> <<>>,
     notification_stored |-> FALSE, scan_failed |-> FALSE,
     waits |-> <<>>, sms_waits |-> <<>>,
     start_time |-> 0, processing_time |-> 0,
     camera_id |-> DefaultCamera, location |-> <<>>]

NoBatch ==
    [status |-> "none", requests |-> <<>>, max_concurrent |-> 0, semaphore |-> 0,
     base |-> 0, results |-> <<>>]

\* The registry: two plates registered through the API (is_active set), one
\* digit apart and of different owners, and one of init_database's sample
\* plates, which carry no is_active field.
InitUsers ==
    << [id |-> 1, is_active |-> PyTrue], [id |-> 2, is_active |-> PyTrue] >>
InitPlates ==
    << [id |-> 2, user_id |-> 2, plate |-> PlateNear, is_active |-> PyTrue],
       [id |-> 1, user_id |-> 1, plate |-> PlateRegistered, is_active |-> PyTrue],
       [id |-> 3, user_id |-> 2, plate |-> PlateSample, is_active |-> Absent] >>

Configs == [roboflow_api_key : BOOLEAN, backup_api_key : BOOLEAN]

\* The service after construction, with room for n calls.
InitWith(n, configs) ==
    /\ config \in configs
    /\ now = 0
    /\ cur = 0
    /\ calls = [c \in 1..n |-> IdleCall]
    /\ detection_cache = <<>>
    /\ metrics = [total_detections |-> 0, successful_detections |-> 0,
                  failed_detections |-> 0, cache_hits |-> 0,
                  average_processing_time |-> [n |-> 0, d |-> 1]]
    /\ detections_table = <<>>
    /\ notifications_table = <<>>
    /\ plates_table = InitPlates
    /\ users_table = InitUsers
    /\ batch = NoBatch
    /\ cache_cleared = FALSE

Init == InitWith(MaxCalls, Configs)

\* _generate_detection_id: random.randint(100000, 999999) returns an id that
\* is in use already, or a new one.  Ids are only ever compared for equality,
\* so the next unused number stands for every new value.
FirstDetectionId == 100000
UsedIds ==
    ({calls[c].id : c \in Calls} \cup {batch.results[i].id : i \in DOMAIN batch.results})
        \ {0}
DetectionIds == UsedIds \cup {FirstDetectionId + Cardinality(UsedIds)}

\* No call is in flight: a caller that awaits each call before the next.
Quiet == \A c \in Calls : calls[c].pc \in {"idle", "done", "raised"}

FreeSlots == {c \in Calls : calls[c].pc = "idle"}
NextSlot == CHOOSE c \in FreeSlots : \A d \in FreeSlots : c <= d

\* A hit that is also counted as a detection.
CacheHitCounted(m) == [m EXCEPT !.cache_hits = @ + 1, !.total_detections = @ + 1]

\* ---------------------------------------------------------------- metrics
\* `self.metrics["cache_hits"] += 1`
CacheHitMetrics(m) == [m EXCEPT !.cache_hits = @ + 1]

\* A read-modify-write that loses the increment of the total on failures.
update_metrics_lossy(m, success, processing_time) ==
    IF success
    THEN [m EXCEPT !.total_detections = @ + 1, !.successful_detections = @ + 1]
    ELSE [m EXCEPT !.failed_detections = @ + 1]

\* The greatest common divisor, and a fraction in lowest terms: two equal
\* averages are one value.
RECURSIVE Gcd(_, _)
Gcd(a, b) == IF b = 0 THEN a ELSE Gcd(b, a % b)
Lowest(n, d) == LET g == Gcd(n, d) IN [n |-> n \div g, d |-> d \div g]

\* `if total_successful > 0: average_processing_time = (current_avg *
\* (total_successful - 1) + processing_time) / total_successful`, which
\* _update_metrics runs after the counters whatever `success` is.  The
\* average is an exact fraction here.
average_after(current_avg, total_successful, processing_time, success) ==
    IF total_successful > 0
    THEN Lowest(current_avg.n * (total_successful - 1) + processing_time * current_avg.d,
                current_avg.d * total_successful)
    ELSE current_avg

\* EnhancedDetectionService._update_metrics; processing_time is
\* `time.time() - start_time`.
update_metrics(m, success, processing_time) ==
    LET counted ==
            IF success
            THEN [m EXCEPT !.total_detections = @ + 1, !.successful_detections = @ + 1]
            ELSE [m EXCEPT !.total_detections = @ + 1, !.failed_detections = @ + 1]
    IN  [counted EXCEPT !.average_processing_time =
            average_after(@, counted.successful_detections, processing_time, success)]

\* A store that inserts the record twice.
store_twice(table, detection, c, insert_ok) ==
    IF insert_ok
    THEN Append(Append(table, detection @@ [call |-> c]), detection @@ [call |-> c])
    ELSE table

\* A store that keeps only the records of detections without a match.
store_unmatched_only(table, detection, c, insert_ok) ==
    IF insert_ok /\ detection.matched_user_id = 0
    THEN Append(table, detection @@ [call |-> c])
    ELSE table

\* A store that keeps only the records of matched detections.
store_matched_only(table, detection, c, insert_ok) ==
    IF insert_ok /\ detection.matched_user_id # 0
    THEN Append(table, detection @@ [call |-> c])
    ELSE table

\* EnhancedDetectionService._store_detection_result: the insert, and the
\* except branch that logs and swallows a failure of the record store.
\* An insert of the detection as it was created, before matching and
\* notification set its outcome fields.
store_before_outcome(table, detection, c, insert_ok) ==
    IF insert_ok
    THEN Append(table, [detection EXCEPT !.matched_user_id = 0,
                                         !.notification_sent = FALSE] @@ [call |-> c])
    ELSE table

store_detection_result(table, detection, c, insert_ok) ==
    IF insert_ok THEN Append(table, detection @@ [call |-> c])
    ELSE table

\* A notification row that always reports the SMS as sent.
notification_record_sent(match, detection, success, c) ==
    [user_id |-> match.user_id, detection_id |-> detection.id, status |-> "sent",
     exact_match |-> match.exact_match, call |-> c]

\* notification_record of _send_enhanced_notification: whom and which
\* detection it is for, and "sent" if result.get("success") else "failed".
notification_record(match, detection, success, c) ==
    [user_id |-> match.user_id, detection_id |-> detection.id,
     status |-> IF success THEN "sent" ELSE "failed",
     exact_match |-> match.exact_match, call |-> c]

\* The weakest match taken for the best one.
last_match(matches) == matches[Len(matches)]

\* `best_match = matches[0]`
best_match(matches) == matches[1]

\* An error record without the DETECTION_FAILED sentinel.
ErrorDetectionUnknown(call) ==
    DetectionResult(call.id, <<"UNKNOWN">>, 0, camera_or_default(call.camera_id),
                    call.location, call.image_url)

\* The `except Exception as e` branch of process_detection_with_retry: the
\* record it stores.
ErrorDetection(call) ==
    DetectionResult(call.id, DETECTION_FAILED, 0, camera_or_default(call.camera_id),
                    call.location, call.image_url)

\* process_single_with_semaphore's except branch: the result it returns.
BatchErrorResult(id, call) ==
    DetectionResult(id, BATCH_ERROR, 0, camera_or_default(call.camera_id),
                    call.location, call.image_url)

\* A size check that lets the empty list through.
ValidateBatchSizeOnly(requests) ==
    IF Len(requests) > MaxBatchSize THEN "Batch size cannot exceed 20 images" ELSE "ok"

\* ------------------------------------------------------------ the batch gate
\* `len(requests) > 20` and `len(requests) == 0`: the HTTPException raised,
\* "ok" when the batch is accepted.
ValidateBatch(requests) ==
    IF Len(requests) > MaxBatchSize THEN "Batch size cannot exceed 20 images"
    ELSE IF Len(requests) = 0 THEN "At least one detection request is required"
    ELSE "ok"

\* A limit taken as requested, without the ceiling.
CapConcurrencyUncapped(max_concurrent) == max_concurrent

\* `max_concurrent = min(max_concurrent, 10)`
CapConcurrency(max_concurrent) ==
    IF max_concurrent < MaxConcurrentCap THEN max_concurrent ELSE MaxConcurrentCap

\* A result list filled in completion order instead of by position.
BatchAfterInCompletionOrder(b, call, result) ==
    IF call.batch_index = 0 THEN b
    ELSE LET free == {i \in 1..Len(b.results) : b.results[i] = NoResult}
             slot == CHOOSE i \in free : \A j \in free : i <= j
             results == [b.results EXCEPT ![slot] = result]
         IN  [b EXCEPT !.results = results,
                       !.semaphore = @ + 1,
                       !.status = IF \A i \in 1..Len(results) : results[i] # NoResult
                                  THEN "returned" ELSE @]

\* What a finished call leaves in the batch: its slot of asyncio.gather's
\* result list, the semaphore released, and the list returned once complete.
BatchAfter(b, call, result) ==
    IF call.batch_index = 0 THEN b
    ELSE LET results == [b.results EXCEPT ![call.batch_index] = result]
         IN  [b EXCEPT !.results = results,
                       !.semaphore = @ + 1,
                       !.status = IF \A i \in 1..Len(results) : results[i] # NoResult
                                  THEN "returned" ELSE @]

\* ---------------------------------------------------------------- actions
registry == <<plates_table, users_table>>
stores == <<detections_table, notifications_table>>

\* A caller awaits process_detection_with_retry(request): start_time and
\* detection_id are taken and the call runs.
ProcessRequest(image_url, camera_id, location, id) ==
    /\ cur = 0
    /\ FreeSlots # {}
    /\ calls' = [calls EXCEPT ![NextSlot] =
                    [IdleCall EXCEPT !.pc = "validate", !.image_url = image_url,
                                     !.camera_id = camera_id, !.location = location,
                                     !.id = id, !.start_time = now]]
    /\ cur' = NextSlot
    /\ UNCHANGED <<cache_cleared, config, now, detection_cache, metrics, stores, registry, batch>>

\* A request that names no camera and no location: DetectionRequest gives
\* camera_id "default" and location None.
ProcessDetection(image_url, id) == ProcessRequest(image_url, DefaultCamera, <<>>, id)

\* process_batch_detection up to asyncio.gather: the size checks, the cap, the
\* semaphore (asyncio.Semaphore(value) raises ValueError for value < 0), and
\* one task per request waiting to run.
ProcessBatch(requests, max_concurrent) ==
    /\ cur = 0
    /\ batch.status = "none"
    /\ FreeSlots = Calls
    /\ IF ValidateBatch(requests) # "ok"
       THEN /\ batch' = [NoBatch EXCEPT !.status = "rejected", !.requests = requests,
                                        !.max_concurrent = max_concurrent]
            /\ UNCHANGED calls
       ELSE IF CapConcurrency(max_concurrent) < 0
       THEN /\ batch' = [NoBatch EXCEPT !.status = "failed", !.requests = requests,
                                        !.max_concurrent = max_concurrent]
            /\ UNCHANGED calls
       ELSE /\ Len(requests) <= Cardinality(Calls)
            /\ batch' = [status |-> "running", requests |-> requests,
                         max_concurrent |-> max_concurrent,
                         semaphore |-> CapConcurrency(max_concurrent),
                         base |-> 0,
                         results |-> [i \in 1..Len(requests) |-> NoResult]]
            /\ calls' = [c \in Calls |->
                            IF c <= Len(requests)
                            THEN [IdleCall EXCEPT !.pc = "gate",
                                      !.image_url = requests[c], !.batch_index = c]
                            ELSE calls[c]]
    /\ UNCHANGED <<cache_cleared, config, now, cur, detection_cache, metrics, stores, registry>>

\* `async with semaphore`: the first waiting task of the batch enters and
\* calls process_detection_with_retry.
Admit(c, id) ==
    /\ cur = 0
    /\ calls[c].pc = "gate"
    /\ \A d \in Calls : d < c => calls[d].pc # "gate"
    /\ batch.semaphore > 0
    /\ calls' = [calls EXCEPT ![c].pc = "validate", ![c].id = id,
                              ![c].start_time = now]
    /\ batch' = [batch EXCEPT !.semaphore = @ - 1]
    /\ cur' = c
    /\ UNCHANGED <<cache_cleared, config, now, detection_cache, metrics, stores, registry>>

\* Step 1: _validate_detection_request.
Validate(c) ==
    /\ cur = c
    /\ calls[c].pc = "validate"
    /\ LET verdict == validate_detection_request(calls[c].image_url)
       IN  calls' = IF verdict = "ok"
                    THEN [calls EXCEPT ![c].pc = "cache"]
                    ELSE [calls EXCEPT ![c].pc = "error",
                                       ![c].error = Error("ValueError", verdict, "")]
    /\ UNCHANGED <<cache_cleared, config, now, cur, detection_cache, metrics, stores, registry, batch>>

\* Step 2: _get_cached_result; a hit returns the cached result at once.
CheckCache(c) ==
    /\ cur = c
    /\ calls[c].pc = "cache"
    /\ LET cache_key == generate_cache_key(calls[c].image_url)
           i == CacheIndex(detection_cache, cache_key)
           seen == [calls EXCEPT ![c].cache_seen =
                                     IF i = 0 THEN <<>> ELSE <<detection_cache[i]>>,
                                 ![c].checked_at = now]
       IN  IF CacheHit(detection_cache, cache_key, now)
           THEN /\ metrics' = CacheHitMetrics(metrics)
                /\ calls' = [seen EXCEPT ![c].pc = "done",
                                         ![c].result = detection_cache[i].result]
                /\ batch' = BatchAfter(batch, calls[c], detection_cache[i].result)
                /\ cur' = 0
                /\ UNCHANGED detection_cache
           ELSE /\ detection_cache' = CacheAfterGet(detection_cache, cache_key, now)
                /\ calls' = [seen EXCEPT ![c].pc = "attempt"]
                /\ UNCHANGED <<metrics, batch, cur>>
    /\ UNCHANGED <<cache_cleared, config, now, stores, registry>>

\* What one call of the primary provider may do: raise, or answer.
Raised == [raised |-> TRUE, response |-> EmptyResponse]
Answer(response) == [raised |-> FALSE, response |-> response]
PrimaryOutcomes == {Raised} \cup {Answer(r) : r \in ProviderResponses}

\* A backoff of one second every time.
wait_time_constant(attempt) == 1

\* `wait_time = (2 ** attempt) * 1.0`, in seconds.
wait_time(attempt) == 2 ^ attempt

\* An except branch that keeps the first error instead of the last.
AttemptFailedKeepsFirst(call, message) ==
    [call EXCEPT !.last_error = IF @ = "" THEN message ELSE @,
                 !.pc = IF BackoffBeforeRetry(call.attempt) THEN "backoff" ELSE "attempt",
                 !.waits = IF BackoffBeforeRetry(call.attempt)
                           THEN Append(@, wait_time(call.attempt)) ELSE @,
                 !.attempt = IF BackoffBeforeRetry(call.attempt) THEN @ ELSE @ + 1]

\* The except branch of _detect_with_retry: last_error, then the backoff
\* sleep (the call leaves the event loop) or straight on to the next attempt.
AttemptFailed(call, message) ==
    [call EXCEPT !.last_error = message,
                 !.pc = IF BackoffBeforeRetry(call.attempt) THEN "backoff" ELSE "attempt",
                 !.waits = IF BackoffBeforeRetry(call.attempt)
                           THEN Append(@, wait_time(call.attempt)) ELSE @,
                 !.attempt = IF BackoffBeforeRetry(call.attempt) THEN @ ELSE @ + 1]

\* One iteration of the retry loop of _detect_with_retry; o is what the
\* primary provider does if it is called (Raised stands in when it is not).
Attempt(c, o) ==
    /\ cur = c
    /\ calls[c].pc = "attempt"
    /\ InRetryRange(calls[c].attempt)
    /\ config.roboflow_api_key \/ o = Raised
    /\ LET primary == config.roboflow_api_key
           backup == TryBackup(config.backup_api_key, calls[c].attempt)
           call == [calls[c] EXCEPT !.tries = @ + 1,
                                    !.primary_calls = IF primary THEN @ + 1 ELSE @]
           backed == [call EXCEPT !.backup_calls = IF backup THEN @ + 1 ELSE @]
           next == IF primary /\ o.raised
                   THEN [AttemptFailed(call, "Detection API error")
                            EXCEPT !.last_outcome = "raised", !.failed_tries = @ + 1]
                   ELSE IF primary /\ is_valid_response(o.response)
                   THEN [call EXCEPT !.pc = "extract", !.response = o.response,
                                     !.last_outcome = "valid"]
                   ELSE IF backup /\ is_valid_response(call_backup_api)
                   THEN [backed EXCEPT !.pc = "extract", !.response = call_backup_api,
                                       !.last_outcome = "valid"]
                   ELSE [AttemptFailed(backed, "Invalid response from detection API")
                            EXCEPT !.last_outcome = "invalid", !.failed_tries = @ + 1]
       IN  /\ calls' = [calls EXCEPT ![c] = next]
           /\ cur' = IF next.pc = "backoff" THEN 0 ELSE c
    /\ UNCHANGED <<cache_cleared, config, now, detection_cache, metrics, stores, registry, batch>>

\* The retry loop is over: raise Exception("All detection attempts failed.
\* Last error: ...").
AttemptsExhausted(c) ==
    /\ cur = c
    /\ calls[c].pc = "attempt"
    /\ ~InRetryRange(calls[c].attempt)
    /\ calls' = [calls EXCEPT ![c].pc = "error",
                    ![c].error = Error("Exception", "All detection attempts failed",
                                       calls[c].last_error)]
    /\ UNCHANGED <<cache_cleared, config, now, cur, detection_cache, metrics, stores, registry, batch>>

\* `await asyncio.sleep(wait_time)` returns: the next attempt.
Wake(c) ==
    /\ cur = 0
    /\ calls[c].pc = "backoff"
    /\ calls' = [calls EXCEPT ![c].pc = "attempt", ![c].attempt = @ + 1]
    /\ cur' = c
    /\ UNCHANGED <<cache_cleared, config, now, detection_cache, metrics, stores, registry, batch>>

\* Steps 4 and 5: _extract_plate_from_response, the confidence check, and the
\* DetectionResult.
Extract(c) ==
    /\ cur = c
    /\ calls[c].pc = "extract"
    /\ LET call == calls[c]
           e == extract_plate_from_response(call.response)
       IN  calls' = IF NoUsableDetection(e.plate, e.confidence)
                    THEN [calls EXCEPT ![c].pc = "error",
                             ![c].response = EmptyResponse,
                             ![c].extracted = <<e>>,
                             ![c].error = Error("ValueError",
                                                "No valid license plate detected", "")]
                    ELSE [calls EXCEPT ![c].pc = "match",
                             ![c].response = EmptyResponse,
                             ![c].extracted = <<e>>,
                             ![c].detection = DetectionResult(call.id, e.plate,
                                                  e.confidence,
                                                  camera_or_default(call.camera_id),
                                                  call.location, call.image_url)]
    /\ UNCHANGED <<cache_cleared, config, now, cur, detection_cache, metrics, stores, registry, batch>>

\* Step 6: _find_enhanced_matches; a failure of the record store raises.
Match(c, store_ok) ==
    /\ cur = c
    /\ calls[c].pc = "match"
    /\ LET call == calls[c]
           scan == scan_registry(store_ok, call.detection.plate_number,
                                 plates_table, users_table)
           matches == scan.matches
       IN  calls' = IF scan.raised
                    THEN [calls EXCEPT ![c].pc = "error", ![c].scan_failed = TRUE,
                             ![c].error = Error("Exception", "record store error", "")]
                    ELSE IF matches # <<>>
                    THEN [calls EXCEPT ![c].pc = "sms", ![c].scans = @ + 1,
                             ![c].scan_failed = ~store_ok,
                             ![c].matches = matches,
                             ![c].seen_plates = plates_table,
                             ![c].seen_users = users_table,
                             ![c].best = <<best_match(matches)>>,
                             ![c].detection.matched_user_id =
                                 best_match(matches).user_id]
                    ELSE [calls EXCEPT ![c].pc = "store", ![c].scans = @ + 1,
                             ![c].scan_failed = ~store_ok,
                             ![c].seen_plates = plates_table,
                             ![c].seen_users = users_table]
    /\ UNCHANGED <<cache_cleared, config, now, cur, detection_cache, metrics, stores, registry, batch>>

\* A retry test that reads the provider gateway's max_retries.
sms_retry_by_max_retries(sent, attempt) == ~sent /\ attempt < max_retries

\* `if attempt < max_retries` after a send that did not succeed (a successful
\* one has returned), and `1.0 * (attempt + 1)`, the seconds slept then;
\* max_retries is the parameter of _send_sms_with_retry.
sms_retry(sent, attempt) == ~sent /\ attempt < sms_max_retries
sms_delay(attempt) == attempt + 1

\* One iteration of the loop of _send_sms_with_retry: send_sms returns a
\* success or an {"error": ...}; after a failure that is not the last the call
\* sleeps.
SendSms(c, sent) ==
    /\ cur = c
    /\ calls[c].pc = "sms"
    /\ LET retry == sms_retry(sent, calls[c].sms_attempt)
       IN  /\ calls' = [calls EXCEPT ![c].sms_sent = sent,
                                     ![c].sms_calls = @ + 1,
                                     ![c].sms_waits =
                                         IF retry
                                         THEN Append(@, sms_delay(calls[c].sms_attempt))
                                         ELSE @,
                                     ![c].pc = IF retry THEN "sms_sleep" ELSE "notify"]
           /\ cur' = IF retry THEN 0 ELSE c
    /\ UNCHANGED <<cache_cleared, config, now, detection_cache, metrics, stores, registry, batch>>

\* `await asyncio.sleep(1.0 * (attempt + 1))` returns: the next send.
WakeSms(c) ==
    /\ cur = 0
    /\ calls[c].pc = "sms_sleep"
    /\ calls' = [calls EXCEPT ![c].pc = "sms", ![c].sms_attempt = @ + 1]
    /\ cur' = c
    /\ UNCHANGED <<cache_cleared, config, now, detection_cache, metrics, stores, registry, batch>>

\* The rest of _send_enhanced_notification: the notification record, and the
\* except branch (return False) when its insert fails.
Notify(c, insert_ok) ==
    /\ cur = c
    /\ calls[c].pc = "notify"
    /\ LET call == calls[c]
           match == call.best[1]
       IN  /\ notifications_table' =
                  IF insert_ok
                  THEN Append(notifications_table,
                           notification_record(match, call.detection, call.sms_sent, c))
                  ELSE notifications_table
           /\ calls' = [calls EXCEPT ![c].pc = "store",
                           ![c].notification_stored = insert_ok,
                           ![c].detection.notification_sent = insert_ok /\ call.sms_sent]
    /\ UNCHANGED <<cache_cleared, config, now, cur, detection_cache, metrics, detections_table,
                   registry, batch>>

\* Steps 8 and 9 and the return: _store_detection_result, _cache_result,
\* _update_metrics(start_time, True).
Store(c, insert_ok) ==
    /\ cur = c
    /\ calls[c].pc = "store"
    /\ detections_table' =
           store_detection_result(detections_table, calls[c].detection, c, insert_ok)
    /\ detection_cache' = cache_result(detection_cache,
                              generate_cache_key(calls[c].image_url),
                              calls[c].detection, now)
    /\ metrics' = update_metrics(metrics, TRUE, now - calls[c].start_time)
    /\ calls' = [calls EXCEPT ![c].pc = "done", ![c].result = calls[c].detection,
                              ![c].cached_at = now, ![c].stored = insert_ok,
                              ![c].insert_failed = ~insert_ok,
                              ![c].processing_time = now - calls[c].start_time]
    /\ batch' = BatchAfter(batch, calls[c], calls[c].detection)
    /\ cur' = 0
    /\ cache_cleared' = FALSE
    /\ UNCHANGED <<config, now, notifications_table, registry>>

\* An except branch that caches the error detection as a result is cached.
cache_on_error_caching(cache, cache_key, error_detection, t) ==
    cache_result(cache, cache_key, error_detection, t)

\* The cache after the except branch of process_detection, which stores the
\* error detection and updates the metrics: _cache_result is called in the
\* try block only, after the detection is stored.
cache_on_error(cache, cache_key, error_detection, t) == cache

\* The `except Exception as e` branch: the error record is stored, the metrics
\* count a failure and e is raised again; in a batch the wrapper turns it into
\* a BATCH_ERROR result with an id of its own.
Fail(c, insert_ok, id) ==
    /\ cur = c
    /\ calls[c].pc = "error"
    /\ calls[c].batch_index = 0 => id = calls[c].id
    /\ detection_cache' =
           cache_on_error(detection_cache, generate_cache_key(calls[c].image_url),
                          ErrorDetection(calls[c]), now)
    /\ detections_table' =
           store_detection_result(detections_table, ErrorDetection(calls[c]), c,
                                  insert_ok)
    /\ metrics' = update_metrics(metrics, FALSE, now - calls[c].start_time)
    /\ calls' = [calls EXCEPT ![c].pc = "raised", ![c].stored = insert_ok,
                              ![c].insert_failed = ~insert_ok,
                              ![c].processing_time = now - calls[c].start_time]
    /\ batch' = BatchAfter(batch, calls[c], BatchErrorResult(id, calls[c]))
    /\ cur' = 0
    /\ UNCHANGED <<cache_cleared, config, now, notifications_table, registry>>

\* Time passes.
Tick ==
    /\ now < MaxTicks * TickMinutes
    /\ now' = now + TickMinutes
    /\ UNCHANGED <<cache_cleared, config, cur, calls, detection_cache, metrics, stores, registry, batch>>

\* A clear that leaves the entries in place.
cleared_keeping(cache) == cache

\* EnhancedDetectionService.clear_cache: self.detection_cache.clear()
cleared(cache) == <<>>

\* POST /cache/clear.  The route is a plain `def`, which the framework runs on
\* a worker thread: it can run while a detection is suspended at an await.
clear_cache ==
    /\ detection_cache' = cleared(detection_cache)
    /\ cache_cleared' = TRUE
    /\ UNCHANGED <<config, now, cur, calls, metrics, stores, registry, batch>>

\* ------------------------------------------------------ registry routes
\* table.update(fields, Query.id == id) on the is_active field.
SetActive(table, id, value) ==
    [i \in 1..Len(table) |->
        IF table[i].id = id THEN [table[i] EXCEPT !.is_active = value] ELSE table[i]]
        \o <<>>

HasId(table, id) == \E i \in 1..Len(table) : table[i].id = id

\* DELETE /plates/{plate_id}: 404 for an unknown id; the record removed
\* (hard_delete) or its is_active set to False.
delete_plate(plate_id, hard_delete) ==
    /\ cur = 0
    /\ HasId(plates_table, plate_id)
    /\ plates_table' = IF hard_delete
                       THEN SelectSeq(plates_table, LAMBDA p : p.id # plate_id)
                       ELSE SetActive(plates_table, plate_id, PyFalse)
    /\ UNCHANGED <<cache_cleared, config, now, cur, calls, detection_cache, metrics, stores,
                   users_table, batch>>

\* POST /plates/{plate_id}/activate
activate_plate(plate_id) ==
    /\ cur = 0
    /\ HasId(plates_table, plate_id)
    /\ plates_table' = SetActive(plates_table, plate_id, PyTrue)
    /\ UNCHANGED <<cache_cleared, config, now, cur, calls, detection_cache, metrics, stores,
                   users_table, batch>>

\* DELETE /users/{user_id}: 404 for an unknown id; hard_delete removes the
\* user and then the user's plates (the second remove is lost when the record
\* store fails between the two); otherwise is_active is set to False.
delete_user(user_id, hard_delete, plates_removed) ==
    /\ cur = 0
    /\ HasId(users_table, user_id)
    /\ ~hard_delete => plates_removed
    /\ users_table' = IF hard_delete
                      THEN SelectSeq(users_table, LAMBDA u : u.id # user_id)
                      ELSE SetActive(users_table, user_id, PyFalse)
    /\ plates_table' = IF hard_delete /\ plates_removed
                       THEN SelectSeq(plates_table, LAMBDA p : p.user_id # user_id)
                       ELSE plates_table
    /\ UNCHANGED <<cache_cleared, config, now, cur, calls, detection_cache, metrics, stores, batch>>

\* POST /users/{user_id}/activate
activate_user(user_id) ==
    /\ cur = 0
    /\ HasId(users_table, user_id)
    /\ users_table' = SetActive(users_table, user_id, PyTrue)
    /\ UNCHANGED <<cache_cleared, config, now, cur, calls, detection_cache, metrics, stores,
                   plates_table, batch>>

\* --------------------------------------------------------- specifications
\* The whole pipeline under every provider outcome and every store and SMS
\* outcome, for calls made directly, one after the other.
Next ==
    \/ \E u \in Urls, id \in DetectionIds : Quiet /\ ProcessDetection(u, id)
    \/ \E c \in Calls : Validate(c)
    \/ \E c \in Calls : CheckCache(c)
    \/ \E c \in Calls, o \in PrimaryOutcomes : Attempt(c, o)
    \/ \E c \in Calls : AttemptsExhausted(c)
    \/ \E c \in Calls : Wake(c)
    \/ \E c \in Calls : Extract(c)
    \/ \E c \in Calls, store_ok \in BOOLEAN : Match(c, store_ok)
    \/ \E c \in Calls, sent \in BOOLEAN : SendSms(c, sent)
    \/ \E c \in Calls : WakeSms(c)
    \/ \E c \in Calls, insert_ok \in BOOLEAN : Notify(c, insert_ok)
    \/ \E c \in Calls, insert_ok \in BOOLEAN : Store(c, insert_ok)
    \/ \E c \in Calls, insert_ok \in BOOLEAN, id \in DetectionIds : Fail(c, insert_ok, id)

Spec == Init /\ [][Next]_vars

\* The cache over time: calls one after the other for two image references
\* and one that fails validation, with the primary provider configured and
\* answering (the registered plate or an unknown one); the registry answers
\* and the SMS goes out; the clock advances while the event loop is idle.
CacheUrls == {UrlA, UrlB, UrlFtp}
CacheConfigs == {[roboflow_api_key |-> TRUE, backup_api_key |-> FALSE]}
AnswerRegistered ==
    Answer(Response(<<>>, << <<DictData(RawRegistered, <<95>>)>> >>, <<>>, <<>>, <<>>))
AnswerUnknown ==
    Answer(Response(<<>>, << <<DictData(RawUnknown, <<95>>)>> >>, <<>>, <<>>, <<>>))
CacheOutcomes == {AnswerRegistered, AnswerUnknown}

InitCache == InitWith(CacheCalls, CacheConfigs)

NextCache ==
    \/ \E u \in CacheUrls, id \in DetectionIds : Quiet /\ ProcessDetection(u, id)
    \/ \E c \in Calls : Validate(c)
    \/ \E c \in Calls : CheckCache(c)
    \/ \E c \in Calls, o \in CacheOutcomes : Attempt(c, o)
    \/ \E c \in Calls : Extract(c)
    \/ \E c \in Calls : Match(c, TRUE)
    \/ \E c \in Calls : SendSms(c, TRUE)
    \/ \E c \in Calls : Notify(c, TRUE)
    \/ \E c \in Calls, insert_ok \in BOOLEAN : Store(c, insert_ok)
    \/ \E c \in Calls, insert_ok \in BOOLEAN : Fail(c, insert_ok, calls[c].id)
    \/ cur = 0 /\ Tick

SpecCache == InitCache /\ [][NextCache]_vars

\* --------------------------------------- specification: clearing the cache
\* Sequential requests for two images that the provider answers, the clock,
\* and POST /cache/clear at any moment, also while a request is suspended.
ClearUrls == {UrlA, UrlB}

InitClear == InitWith(ClearCalls, CacheConfigs)

NextClear ==
    \/ \E u \in ClearUrls, id \in DetectionIds : Quiet /\ ProcessDetection(u, id)
    \/ \E c \in Calls : Validate(c)
    \/ \E c \in Calls : CheckCache(c)
    \/ \E c \in Calls : Attempt(c, AnswerRegistered)
    \/ \E c \in Calls : Extract(c)
    \/ \E c \in Calls : Match(c, TRUE)
    \/ \E c \in Calls : SendSms(c, TRUE)
    \/ \E c \in Calls : Notify(c, TRUE)
    \/ \E c \in Calls : Store(c, TRUE)
    \/ cur = 0 /\ Tick
    \/ clear_cache

SpecClear == InitClear /\ [][NextClear]_vars

\* ------------------------------------------- specification: a full cache
\* The service has run for a while: its cache holds n results of earlier
\* requests, in dict (first insertion) order, each for an image of its own.
\* The entries in `late` were written at TickMinutes, the others at 0: an
\* entry written again by a second request for its image keeps its place in
\* the dict and carries the later time.
NumberedUrl(k) == <<"h", "t", "t", "p", "s", ":", "/", "/", ToString(k)>>
FilledCache(n, late) ==
    [k \in 1..n |->
        [key |-> generate_cache_key(NumberedUrl(k)),
         result |-> DetectionResult(FirstDetectionId + k, PlateSample, 95, DefaultCamera,
                                    <<>>, NumberedUrl(k)),
         timestamp |-> IF k \in late THEN TickMinutes ELSE 0]] \o <<>>

InitEvict ==
    /\ config \in CacheConfigs
    /\ now = TickMinutes
    /\ cur = 0
    /\ calls = [c \in 1..EvictCalls |-> IdleCall]
    /\ \E n \in {CacheLimit - 1, CacheLimit},
          late \in {{}, {1}, (CacheEvict \div 2 + 1)..CacheLimit} :
           detection_cache = FilledCache(n, late)
    /\ metrics = [total_detections |-> 0, successful_detections |-> 0,
                  failed_detections |-> 0, cache_hits |-> 0,
                  average_processing_time |-> [n |-> 0, d |-> 1]]
    /\ detections_table = <<>>
    /\ notifications_table = <<>>
    /\ plates_table = InitPlates
    /\ users_table = InitUsers
    /\ batch = NoBatch
    /\ cache_cleared = FALSE

NextEvict ==
    \/ \E u \in ClearUrls, id \in DetectionIds : Quiet /\ ProcessDetection(u, id)
    \/ \E c \in Calls : Validate(c)
    \/ \E c \in Calls : CheckCache(c)
    \/ \E c \in Calls : Attempt(c, AnswerRegistered)
    \/ \E c \in Calls : Extract(c)
    \/ \E c \in Calls : Match(c, TRUE)
    \/ \E c \in Calls : SendSms(c, TRUE)
    \/ \E c \in Calls : Notify(c, TRUE)
    \/ \E c \in Calls : Store(c, TRUE)

SpecEvict == InitEvict /\ [][NextEvict]_vars

\* ------------------------------------------ specification: the two scores
\* One plate is registered, to owner 1, and the provider reports one of the
\* same plates: every ordered pair of them is scored by a scan.  The plates
\* are PlateRegistered, its neighbour PlateNear, PlateRegistered with its
\* digits rotated, PlateRegistered with the letter O for its zero, and
\* PlateConfusable.
PlateShifted == <<"G", "R", "-", "0", "0", "4", "1", "-", "2", "1">>
PlateLetterO == <<"G", "R", "-", "1", "O", "3", "4", "-", "2", "1">>
SimilarPlates ==
    {PlateRegistered, PlateNear, PlateShifted, PlateLetterO, PlateConfusable}

InitSimilarity ==
    /\ config \in CacheConfigs
    /\ now = 0
    /\ cur = 0
    /\ calls = [c \in 1..MatchCalls |-> IdleCall]
    /\ detection_cache = <<>>
    /\ metrics = [total_detections |-> 0, successful_detections |-> 0,
                  failed_detections |-> 0, cache_hits |-> 0,
                  average_processing_time |-> [n |-> 0, d |-> 1]]
    /\ detections_table = <<>>
    /\ notifications_table = <<>>
    /\ plates_table \in {<< [id |-> 1, user_id |-> 1, plate |-> p, is_active |-> PyTrue] >> :
                             p \in SimilarPlates}
    /\ users_table = InitUsers
    /\ batch = NoBatch
    /\ cache_cleared = FALSE

NextSimilarity ==
    \/ \E u \in ClearUrls, id \in DetectionIds : Quiet /\ ProcessDetection(u, id)
    \/ \E c \in Calls : Validate(c)
    \/ \E c \in Calls : CheckCache(c)
    \/ \E c \in Calls, p \in SimilarPlates :
           Attempt(c, Answer(Response(<<>>, << <<DictData(p, <<95>>)>> >>, <<>>, <<>>, <<>>)))
    \/ \E c \in Calls : Extract(c)
    \/ \E c \in Calls : Match(c, TRUE)
    \/ \E c \in Calls : SendSms(c, TRUE)
    \/ \E c \in Calls : Notify(c, TRUE)
    \/ \E c \in Calls : Store(c, TRUE)
    \/ \E c \in Calls : Fail(c, TRUE, calls[c].id)

SpecSimilarity == InitSimilarity /\ [][NextSimilarity]_vars

\* The batch endpoint: one batch whose items overlap at the backoff sleeps;
\* the provider raises or reports the registered plate, the record store
\* answers and the SMS goes out.
BatchUrls == {UrlA, UrlFtp}
BatchInputs ==
    UNION {[1..n -> BatchUrls] : n \in 0..BatchCalls}
        \cup {[i \in 1..(MaxBatchSize + 1) |-> UrlA]}
ConcurrencyInputs == {-1, 0, 1, 2, MaxConcurrentCap + 1}
BatchOutcomes == {Raised, AnswerRegistered}

InitBatch == InitWith(BatchCalls, CacheConfigs)

NextBatch ==
    \/ \E requests \in BatchInputs, m \in ConcurrencyInputs : ProcessBatch(requests, m)
    \/ \E c \in Calls, id \in DetectionIds : Admit(c, id)
    \/ \E c \in Calls : Validate(c)
    \/ \E c \in Calls : CheckCache(c)
    \/ \E c \in Calls, o \in BatchOutcomes : Attempt(c, o)
    \/ \E c \in Calls : AttemptsExhausted(c)
    \/ \E c \in Calls : Wake(c)
    \/ \E c \in Calls : Extract(c)
    \/ \E c \in Calls : Match(c, TRUE)
    \/ \E c \in Calls : SendSms(c, TRUE)
    \/ \E c \in Calls : Notify(c, TRUE)
    \/ \E c \in Calls : Store(c, TRUE)
    \/ \E c \in Calls, id \in DetectionIds : Fail(c, TRUE, id)

SpecBatch == InitBatch /\ [][NextBatch]_vars

\* Matching against the registry: plates registered through the API (distinct
\* plate texts, is_active set) or seeded (no is_active field), for two owners;
\* the registry routes edit it, then detections run, the provider reporting a
\* registered plate, a look-alike or an unknown one; the SMS goes out.
RegistryPlates == {PlateRegistered, PlateNear, PlateConfusable}
Owners == {1, 2}
Registries ==
    UNION { { [i \in 1..n |-> [id |-> i, user_id |-> o[i], plate |-> p[i],
                               is_active |-> a[i]]] \o <<>> :
                p \in {q \in [1..n -> RegistryPlates] :
                          \A i, j \in 1..n : i # j => q[i] # q[j]},
                o \in [1..n -> Owners],
                a \in [1..n -> {PyTrue, Absent}] } : n \in 0..MaxPlates }
PlateIds == 1..MaxPlates
AnswerLookAlike ==
    Answer(Response(<<>>, << <<DictData(RawLookAlike, <<95>>)>> >>, <<>>, <<>>, <<>>))
MatchOutcomes == {AnswerRegistered, AnswerLookAlike, AnswerUnknown}

\* The registry is edited before the detections start.
BeforeDetections == \A c \in Calls : calls[c].pc = "idle"

InitMatch ==
    /\ config \in CacheConfigs
    /\ now = 0
    /\ cur = 0
    /\ calls = [c \in 1..MatchCalls |-> IdleCall]
    /\ detection_cache = <<>>
    /\ metrics = [total_detections |-> 0, successful_detections |-> 0,
                  failed_detections |-> 0, cache_hits |-> 0,
                  average_processing_time |-> [n |-> 0, d |-> 1]]
    /\ detections_table = <<>>
    /\ notifications_table = <<>>
    /\ plates_table \in Registries
    /\ users_table = InitUsers
    /\ batch = NoBatch
    /\ cache_cleared = FALSE

NextMatch ==
    \/ \E id \in PlateIds, hard_delete \in BOOLEAN :
           BeforeDetections /\ delete_plate(id, hard_delete)
    \/ \E id \in PlateIds : BeforeDetections /\ activate_plate(id)
    \/ \E id \in Owners, hard_delete, plates_removed \in BOOLEAN :
           BeforeDetections /\ delete_user(id, hard_delete, plates_removed)
    \/ \E id \in Owners : BeforeDetections /\ activate_user(id)
    \/ \E id \in DetectionIds : Quiet /\ ProcessDetection(UrlA, id)
    \/ \E c \in Calls : Validate(c)
    \/ \E c \in Calls : CheckCache(c)
    \/ \E c \in Calls, o \in MatchOutcomes : Attempt(c, o)
    \/ \E c \in Calls : Extract(c)
    \/ \E c \in Calls : Match(c, TRUE)
    \/ \E c \in Calls : SendSms(c, TRUE)
    \/ \E c \in Calls : Notify(c, TRUE)
    \/ \E c \in Calls, insert_ok \in BOOLEAN : Store(c, insert_ok)

SpecMatch == InitMatch /\ [][NextMatch]_vars

\* ----------------------------------------------------------------- claims
Finished(c) == calls[c].pc \in {"done", "raised"}

\* The call returned a cached result: it is done without one trip through the
\* retry loop.
ServedFromCache(c) == calls[c].pc = "done" /\ calls[c].tries = 0

\* The rows of the detections table that call c inserted.
RowsOf(c) == {i \in DOMAIN detections_table : detections_table[i].call = c}

\* The age of a cache entry when the call that found it looked.
AgeSeen(call) == call.checked_at - call.cache_seen[1].timestamp

FailureRow(c) ==
    \E i \in RowsOf(c) :
        /\ detections_table[i].image_url = calls[c].image_url
        /\ detections_table[i].plate_number = DETECTION_FAILED
        /\ detections_table[i].confidence = 0

C3_CacheWindow ==
    \A c \in Calls :
        LET call == calls[c]
            key == generate_cache_key(call.image_url)
            i == CacheIndex(detection_cache, key)
        IN  /\ (call.pc = "done" /\ call.tries > 0) =>
                   \/ i # 0 /\ detection_cache[i].timestamp >= call.cached_at
                   \/ now - call.cached_at >= cache_duration
            /\ (call.cache_seen # <<>> /\ AgeSeen(call) < cache_duration) =>
                   /\ call.pc = "done"
                   /\ call.result = call.cache_seen[1].result
                   /\ call.primary_calls = 0 /\ call.backup_calls = 0
                   /\ \E d \in Calls \ {c} :
                          /\ calls[d].pc = "done" /\ calls[d].tries > 0
                          /\ calls[d].image_url = call.image_url
                          /\ calls[d].result = call.result
            /\ (call.cache_seen # <<>> /\ AgeSeen(call) >= cache_duration) =>
                   /\ ~ServedFromCache(c)
                   /\ (cur = c /\ call.pc = "attempt" /\ call.tries = 0) => i = 0
                   /\ call.tries > 0 => call.primary_calls > 0

\* C3, a state where it matters: a call found an entry whose age was exactly
\* the TTL, called the provider and finished with a result of its own.
C3_Witness ==
    \E c \in Calls :
        /\ calls[c].cache_seen # <<>>
        /\ AgeSeen(calls[c]) = cache_duration
        /\ calls[c].pc = "done"
        /\ calls[c].primary_calls = 1
        /\ calls[c].result.id = calls[c].id

\* The call c is about to look up an entry younger than the TTL.
AboutToHit(c) ==
    LET i == CacheIndex(detection_cache, generate_cache_key(calls[c].image_url))
    IN  /\ cur = c
        /\ calls[c].pc = "cache"
        /\ i # 0
        /\ now - detection_cache[i].timestamp < cache_duration

\* C4: a cache hit changes nothing but the cache_hits counter: the step of a
\* call that finds a fresh entry leaves the detections and notifications
\* tables, the registry and the cache as they are, adds one to cache_hits and
\* leaves the other counters, and the call has called no provider, scanned
\* no registry and sent no SMS.
C4_HitChangesOnlyCacheHits ==
    [][\A c \in Calls :
          (AboutToHit(c) /\ calls'[c] # calls[c]) =>
              /\ UNCHANGED <<detections_table, notifications_table, plates_table,
                             users_table, detection_cache>>
              /\ metrics' = [metrics EXCEPT !.cache_hits = @ + 1]
              /\ calls'[c].pc = "done"
              /\ calls'[c].primary_calls = 0 /\ calls'[c].backup_calls = 0
              /\ calls'[c].scans = 0 /\ calls'[c].sms_calls = 0]_vars

\* C4, a state where it matters: a call was served a matched detection from
\* the cache, and the one notification of the first call is the only one.
C4_Witness ==
    \E c \in Calls :
        /\ ServedFromCache(c)
        /\ calls[c].result.matched_user_id # 0
        /\ Len(notifications_table) = 1
        /\ Len(detections_table) = 1
        /\ metrics.cache_hits = 1

\* C5: a request whose image reference is empty or starts with neither
\* http:// nor https:// is rejected with a validation error, and neither
\* provider is ever called for it.
C5_InvalidReferenceRejected ==
    \A c \in Calls :
        LET call == calls[c]
            invalid == \/ call.image_url = <<>>
                       \/ ~(\/ StartsWith(call.image_url, HttpPrefix)
                            \/ StartsWith(call.image_url, HttpsPrefix))
        IN  (invalid /\ call.pc \notin {"idle", "gate", "validate"}) =>
                /\ call.pc \in {"error", "raised"}
                /\ call.error.type = "ValueError"
                /\ call.error.message \in {"Image URL is required",
                                           "Image URL must be a valid HTTP/HTTPS URL"}
                /\ call.primary_calls = 0 /\ call.backup_calls = 0 /\ call.tries = 0

\* C5, a state where it matters: a call for an ftp:// reference has raised.
C5_Witness ==
    \E c \in Calls :
        /\ calls[c].pc = "raised"
        /\ calls[c].image_url = UrlFtp
        /\ calls[c].error.type = "ValueError"

LastAttemptError(call) ==
    IF call.last_outcome = "raised" THEN "Detection API error"
    ELSE "Invalid response from detection API"

\* C7: the retry loop never runs more than max_retries iterations and never
\* calls a provider more than max_retries times for one request; when every
\* iteration has failed the call fails with "All detection attempts failed"
\* after exactly max_retries iterations, and that error carries the error of
\* the last iteration.
C7_StopsAfterMaxRetries ==
    \A c \in Calls :
        LET call == calls[c]
            exhausted == call.error.message = "All detection attempts failed"
        IN  /\ call.tries <= max_retries
            /\ call.primary_calls <= max_retries
            /\ call.backup_calls <= max_retries
            /\ exhausted =>
                   /\ call.tries = max_retries
                   /\ call.failed_tries = max_retries
                   /\ call.error.type = "Exception"
                   /\ call.error.cause = LastAttemptError(call)
            /\ (call.failed_tries = max_retries /\ call.pc # "attempt") =>
                   call.pc \in {"error", "raised"} /\ exhausted

\* C7, a state where it matters: both providers were tried and failed, the
\* provider raised on the first attempt and answered badly on the last, and
\* the call has raised with the last error.
C7_Witness ==
    \E c \in Calls :
        /\ calls[c].pc = "raised"
        /\ calls[c].error.message = "All detection attempts failed"
        /\ calls[c].error.cause = "Invalid response from detection API"
        /\ calls[c].primary_calls = max_retries
        /\ calls[c].backup_calls = max_retries - 1

\* C8: when the provider's valid response yields no plate text, or a
\* confidence below the threshold even with a plate text, the call raises "No
\* valid license plate detected", and neither a registry scan nor a
\* notification happens for it.
C8_NoUsableDetectionRaises ==
    \A c \in Calls :
        LET call == calls[c]
        IN  (/\ call.extracted # <<>>
             /\ \/ call.extracted[1].plate = NoPlate
                \/ call.extracted[1].confidence < confidence_threshold) =>
                /\ call.pc \in {"error", "raised"}
                /\ call.error.type = "ValueError"
                /\ call.error.message = "No valid license plate detected"
                /\ call.scans = 0 /\ call.sms_calls = 0
                /\ call.best = <<>>
                /\ \A i \in DOMAIN notifications_table : notifications_table[i].call # c

\* C8, a state where it matters: a plate was read with a confidence below the
\* threshold and the call has raised.
C8_Witness ==
    \E c \in Calls :
        /\ calls[c].pc = "raised"
        /\ calls[c].extracted # <<>>
        /\ calls[c].extracted[1].plate = PlateRegistered
        /\ calls[c].extracted[1].confidence < confidence_threshold

\* C9: a batch that returns gives one result per request, in the order of the
\* requests: result i carries the image reference of request i; a request
\* whose call raised has a BATCH_ERROR result with confidence 0 at its place,
\* the others have the result their call returned; a call that raises never
\* fails the batch.
C9_BatchAligned ==
    /\ batch.status = "returned" =>
           /\ Len(batch.results) = Len(batch.requests)
           /\ \A i \in 1..Len(batch.requests) :
                  /\ batch.results[i].image_url = batch.requests[i]
                  /\ Finished(i)
                  /\ calls[i].pc = "raised" =>
                         /\ batch.results[i].plate_number = BATCH_ERROR
                         /\ batch.results[i].confidence = 0
                  /\ calls[i].pc = "done" =>
                         /\ batch.results[i] = calls[i].result
                         /\ batch.results[i].plate_number \notin
                                {BATCH_ERROR, DETECTION_FAILED, NoPlate}
    /\ batch.status = "failed" => \A c \in Calls : calls[c].pc = "idle"

\* C9, a state where it matters: the first request of a batch of two failed,
\* the second was processed, and the batch returned both in order.
C9_Witness ==
    /\ batch.status = "returned"
    /\ Len(batch.results) = 2
    /\ batch.requests[1] # batch.requests[2]
    /\ batch.results[1].plate_number = BATCH_ERROR
    /\ batch.results[2].plate_number = PlateRegistered

\* C10: a batch is rejected exactly when its list is empty or longer than 20,
\* and a rejected batch processes nothing: no call starts, no provider is
\* called, no row is stored, the metrics and the cache are as they were.
C10_BatchSizeRejected ==
    /\ batch.status # "none" =>
           (batch.status = "rejected" <=>
                (Len(batch.requests) = 0 \/ Len(batch.requests) > 20))
    /\ batch.status = "rejected" =>
           /\ \A c \in Calls : calls[c] = IdleCall
           /\ detections_table = <<>> /\ notifications_table = <<>>
           /\ detection_cache = <<>>
           /\ metrics = [total_detections |-> 0, successful_detections |-> 0,
                         failed_detections |-> 0, cache_hits |-> 0,
                         average_processing_time |-> [n |-> 0, d |-> 1]]
           /\ batch.results = <<>>

\* C10, a state where it matters: a batch of 21 requests was rejected.
C10_Witness ==
    batch.status = "rejected" /\ Len(batch.requests) = 21

\* The requests of the batch that are inside `async with semaphore`: admitted
\* and not yet finished.
InFlight ==
    {c \in Calls : /\ calls[c].batch_index # 0
                   /\ calls[c].pc \notin {"idle", "gate", "done", "raised"}}

\* C11: while a batch with requested limit N runs, at most min(N, 10) of its
\* requests are in flight, at every moment and under every interleaving of
\* retries and backoff sleeps: the permits left and the requests in flight
\* always add up to min(N, 10); a batch that did not start has none in flight.
C11_InFlightBounded ==
    LET N == batch.max_concurrent
        limit == IF N < 10 THEN N ELSE 10
    IN  /\ batch.status \in {"running", "returned"} =>
               /\ Cardinality(InFlight) <= limit
               /\ batch.semaphore >= 0
               /\ batch.semaphore + Cardinality(InFlight) = limit
        /\ batch.status \notin {"running", "returned"} => InFlight = {}

\* C11, a state where it matters: with limit 1 the first request sleeps in
\* its backoff, the event loop is free, and the second request still waits
\* at the gate.
C11_Witness ==
    /\ batch.status = "running" /\ batch.max_concurrent = 1
    /\ Len(batch.requests) = 2
    /\ cur = 0
    /\ calls[1].pc = "backoff"
    /\ calls[2].pc = "gate"

\* The call scanned the registry and found no match.
Unmatched(c) == calls[c].scans = 1 /\ calls[c].matches = <<>>

\* The rows of the notifications table written for call c.
NotificationsOf(c) ==
    {i \in DOMAIN notifications_table : notifications_table[i].call = c}

SmsExhausted(c) == calls[c].sms_calls = 3 /\ ~calls[c].sms_sent

\* The calls that ran the pipeline and returned.
Succeeded == {d \in Calls : calls[d].pc = "done" /\ ~ServedFromCache(d)}

RanksFirst(m, matches) ==
    \A k \in 1..Len(matches) :
        /\ matches[k].exact_match => m.exact_match
        /\ matches[k].exact_match = m.exact_match =>
               matches[k].confidence.n * m.confidence.d
                   <= m.confidence.n * matches[k].confidence.d

Scanned(c) == calls[c].scans = 1

\* The owner of plate record p is in the users scanned and is not deactivated.
OwnerActive(p, users) ==
    \E j \in 1..Len(users) : users[j].id = p.user_id /\ users[j].is_active # PyFalse

\* The plate records a scan may match: active, with an owner who is there and
\* active.
Eligible(c) ==
    {i \in 1..Len(calls[c].seen_plates) :
        /\ calls[c].seen_plates[i].is_active = PyTrue
        /\ OwnerActive(calls[c].seen_plates[i], calls[c].seen_users)}

\* The entries of the returned list that carry plate text p.
EntriesFor(c, p) ==
    {k \in 1..Len(calls[c].matches) : calls[c].matches[k].plate_number = p}

\* C15: every active plate of an active owner that equals the detected plate
\* (case ignored) is in the returned list exactly once, as an exact match
\* with confidence 1.0 for its owner: no similarity strategy adds a second
\* entry for it; and every exact entry of the list is such a plate.
C15_ExactMatchIsCertain ==
    \A c \in Calls :
        Scanned(c) =>
            /\ \A i \in Eligible(c) :
                   LET p == calls[c].seen_plates[i]
                   IN  Upper(p.plate) = Upper(calls[c].detection.plate_number) =>
                           /\ Cardinality(EntriesFor(c, p.plate)) = 1
                           /\ \A k \in EntriesFor(c, p.plate) :
                                  /\ calls[c].matches[k].exact_match
                                  /\ calls[c].matches[k].confidence = [n |-> 1, d |-> 1]
                                  /\ calls[c].matches[k].user_id = p.user_id
            /\ \A k \in 1..Len(calls[c].matches) :
                   calls[c].matches[k].exact_match =>
                       /\ calls[c].matches[k].confidence = [n |-> 1, d |-> 1]
                       /\ Upper(calls[c].matches[k].plate_number) =
                              Upper(calls[c].detection.plate_number)

\* C15, a state where it matters: the detected plate is registered and
\* active, a plate one digit away is registered too, and the list holds the
\* exact match and the near one.
C15_Witness ==
    \E c \in Calls :
        /\ Scanned(c)
        /\ Len(calls[c].matches) = 2
        /\ calls[c].matches[1].exact_match
        /\ calls[c].matches[1].plate_number = PlateRegistered
        /\ calls[c].matches[2].plate_number = PlateNear
        /\ calls[c].seen_plates[1].plate = PlateNear

\* The call has just scanned the registry: its list is as returned.
JustScanned(c) ==
    /\ Scanned(c)
    /\ \/ calls[c].pc = "sms" /\ calls[c].sms_calls = 0
       \/ calls[c].pc = "store" /\ calls[c].matches = <<>>

\* The two scores of the plate record at place i of the registry call c
\* scanned, against the plate it detected, and whether a score reaches 0.75.
Lexical(c, i) ==
    calculate_similarity(calls[c].detection.plate_number, calls[c].seen_plates[i].plate)
Corrected(c, i) ==
    calculate_pattern_similarity(calls[c].detection.plate_number,
                                 calls[c].seen_plates[i].plate)
Clears(score) == score.n * 4 >= 3 * score.d
IsExact(c, i) ==
    Upper(calls[c].seen_plates[i].plate) = Upper(calls[c].detection.plate_number)

\* An eligible plate of the same owner, scanned before place i, that is exact
\* or has a score reaching the threshold: the owner has an entry already.
OwnerListedBefore(c, i) ==
    \E j \in Eligible(c) :
        /\ j < i
        /\ calls[c].seen_plates[j].user_id = calls[c].seen_plates[i].user_id
        /\ (IsExact(c, j) \/ Clears(Lexical(c, j)) \/ Clears(Corrected(c, j)))

C17_OnePerOwner ==
    \A c \in Calls :
        Scanned(c) =>
            \A k, l \in 1..Len(calls[c].matches) :
                k # l => calls[c].matches[k].user_id # calls[c].matches[l].user_id

\* C18: in the list a scan returns every exact match comes before every match
\* that is not exact, and within each of the two groups confidence never
\* increases along the list; so no match outranks the first one, which is the
\* one folded into the detection and notified.
C18_ExactFirstThenByConfidence ==
    \A c \in Calls :
        Scanned(c) =>
            /\ \A k, l \in 1..Len(calls[c].matches) :
                   k < l =>
                       LET x == calls[c].matches[k]
                           y == calls[c].matches[l]
                       IN  /\ y.exact_match => x.exact_match
                           /\ x.exact_match = y.exact_match =>
                                  x.confidence.n * y.confidence.d
                                      >= y.confidence.n * x.confidence.d
            /\ calls[c].matches # <<>> =>
                   /\ RanksFirst(calls[c].matches[1], calls[c].matches)
                   /\ calls[c].best = <<calls[c].matches[1]>>
                   /\ calls[c].detection.matched_user_id = calls[c].matches[1].user_id

\* C18, a state where it matters: a look-alike was detected; the plate scanned
\* first scores 0.9, the plate scanned second scores 1.0, and the list has
\* the second before the first.
C18_Witness ==
    \E c \in Calls :
        /\ Scanned(c)
        /\ Len(calls[c].matches) = 2
        /\ calls[c].seen_plates[1].plate = calls[c].matches[2].plate_number
        /\ calls[c].seen_plates[2].plate = calls[c].matches[1].plate_number
        /\ ~calls[c].matches[1].exact_match /\ ~calls[c].matches[2].exact_match
        /\ calls[c].matches[1].confidence.n * calls[c].matches[2].confidence.d
               > calls[c].matches[2].confidence.n * calls[c].matches[1].confidence.d

\* C19: whatever deletions, deactivations and activations of plates and users
\* came before the scan, every entry of the list it returns is for a plate
\* record that is active at the scan and whose owner is then in the users
\* table and active; so the owner folded into the detection and the owner a
\* notification row is written for are active at the scan.
C19_OnlyActivePlatesAndOwners ==
    \A c \in Calls :
        Scanned(c) =>
            /\ \A k \in 1..Len(calls[c].matches) :
                   \E i \in 1..Len(calls[c].seen_plates) :
                       LET p == calls[c].seen_plates[i]
                       IN  /\ p.plate = calls[c].matches[k].plate_number
                           /\ p.user_id = calls[c].matches[k].user_id
                           /\ p.is_active = PyTrue
                           /\ \E j \in 1..Len(calls[c].seen_users) :
                                  /\ calls[c].seen_users[j].id = p.user_id
                                  /\ calls[c].seen_users[j].is_active = PyTrue
            /\ calls[c].detection.matched_user_id # 0 =>
                   \E j \in 1..Len(calls[c].seen_users) :
                       /\ calls[c].seen_users[j].id = calls[c].detection.matched_user_id
                       /\ calls[c].seen_users[j].is_active = PyTrue
            /\ \A n \in NotificationsOf(c) :
                   \E j \in 1..Len(calls[c].seen_users) :
                       /\ calls[c].seen_users[j].id = notifications_table[n].user_id
                       /\ calls[c].seen_users[j].is_active = PyTrue

\* C19, a state where it matters: in the registry scanned the detected plate
\* is registered but was deactivated, the other plate is active but its owner
\* was deactivated, and the scan returned nothing.
C19_Witness ==
    \E c \in Calls :
        /\ Scanned(c) /\ calls[c].pc = "done"
        /\ calls[c].matches = <<>>
        /\ calls[c].detection.plate_number = PlateRegistered
        /\ \E i \in 1..Len(calls[c].seen_plates) :
               /\ IsExact(c, i)
               /\ calls[c].seen_plates[i].is_active = PyFalse
               /\ OwnerActive(calls[c].seen_plates[i], calls[c].seen_users)
        /\ \E i \in 1..Len(calls[c].seen_plates) :
               /\ calls[c].seen_plates[i].is_active = PyTrue
               /\ \E j \in 1..Len(calls[c].seen_users) :
                      /\ calls[c].seen_users[j].id = calls[c].seen_plates[i].user_id
                      /\ calls[c].seen_users[j].is_active = PyFalse

\* The eligible candidates of call c that are not exact, whose lexical score
\* is below the threshold and whose pattern-corrected score reaches it.
PatternOnly(c) ==
    {i \in Eligible(c) :
        ~IsExact(c, i) /\ ~Clears(Lexical(c, i)) /\ Clears(Corrected(c, i))}

\* C20 (as amended): the pattern-corrected score both upgrades and adds.  A
\* candidate below the threshold on its lexical score and at or above it on
\* its pattern-corrected score is added to the list, with a confidence that
\* is at least the pattern-corrected score, when its owner has no entry yet;
\* when the owner has one, that entry is upgraded to at least the
\* pattern-corrected score and the candidate is not added.  A candidate that
\* reaches the threshold on both, with the pattern-corrected score the
\* higher, leaves its owner with an entry of at least that score.
C20_PatternScoreAddsAndUpgrades ==
    \A c \in Calls :
        JustScanned(c) =>
            /\ \A i \in PatternOnly(c) :
                   LET p == calls[c].seen_plates[i]
                       own == EntriesFor(c, p.plate)
                   IN  IF OwnerListedBefore(c, i)
                       THEN /\ own = {}
                            /\ \E k \in 1..Len(calls[c].matches) :
                                   /\ calls[c].matches[k].user_id = p.user_id
                                   /\ calls[c].matches[k].plate_number # p.plate
                                   /\ FracGeq(calls[c].matches[k].confidence,
                                              Corrected(c, i))
                       ELSE /\ Cardinality(own) = 1
                            /\ \A k \in own :
                                   /\ ~calls[c].matches[k].exact_match
                                   /\ calls[c].matches[k].user_id = p.user_id
                                   /\ FracGeq(calls[c].matches[k].confidence,
                                              Corrected(c, i))
                                   /\ FracGt(calls[c].matches[k].confidence,
                                             Lexical(c, i))
            /\ \A i \in Eligible(c) :
                   (/\ ~IsExact(c, i)
                    /\ Clears(Lexical(c, i))
                    /\ FracGt(Corrected(c, i), Lexical(c, i))) =>
                       \E k \in 1..Len(calls[c].matches) :
                           /\ calls[c].matches[k].user_id =
                                  calls[c].seen_plates[i].user_id
                           /\ FracGeq(calls[c].matches[k].confidence, Corrected(c, i))

\* C20, a state where it matters: the registry holds one plate, the OCR
\* confusion of the detected one (lexical 0.6, pattern-corrected 1.0); the
\* list is that plate alone, and its owner is the matched owner.
C20_Witness ==
    \E c \in Calls :
        /\ JustScanned(c)
        /\ Len(calls[c].seen_plates) = 1
        /\ PatternOnly(c) = {1}
        /\ Len(calls[c].matches) = 1
        /\ calls[c].matches[1].plate_number = PlateConfusable
        /\ calls[c].matches[1].confidence.n = calls[c].matches[1].confidence.d
        /\ calls[c].detection.matched_user_id = calls[c].seen_plates[1].user_id

\* C20 as stated: every entry that is not exact carries a plate whose lexical
\* score reaches the threshold.  A candidate that reaches it on the
\* pattern-corrected score only, of an owner without an entry, breaks it.
C20_AsStated ==
    \A c \in Calls :
        JustScanned(c) =>
            \A k \in 1..Len(calls[c].matches) :
                ~calls[c].matches[k].exact_match =>
                    \A i \in Eligible(c) :
                        calls[c].seen_plates[i].plate = calls[c].matches[k].plate_number
                            => Clears(Lexical(c, i))

C22_PersistedIdsUnique ==
    \A i, j \in DOMAIN detections_table :
        detections_table[i].id = detections_table[j].id => i = j

\* The calls that raised to their caller.
RaisedCalls == {d \in Calls : calls[d].pc = "raised"}

\* C23: under every interleaving of the requests of a batch the counters
\* agree with the requests: the total is the sum of the successes and the
\* failures, the successes are the calls that returned without a cache hit,
\* the failures the calls that raised, the cache hits the calls served from
\* the cache; a call still running has not been counted.
C23_MetricsCountRequests ==
    /\ metrics.total_detections =
           metrics.successful_detections + metrics.failed_detections
    /\ metrics.successful_detections = Cardinality(Succeeded)
    /\ metrics.failed_detections = Cardinality(RaisedCalls)
    /\ metrics.cache_hits = Cardinality({d \in Calls : ServedFromCache(d)})

\* C23, a state where it matters: two requests of a batch for the same image
\* ran interleaved (each looked in the cache before the other had cached its
\* result, so both went to the provider) and both returned.
C23_Witness ==
    \E c, d \in Calls :
        /\ c # d /\ calls[c].image_url = calls[d].image_url
        /\ calls[c].batch_index # 0 /\ calls[d].batch_index # 0
        /\ calls[c].pc = "done" /\ calls[d].pc = "done"
        /\ calls[c].tries > 0 /\ calls[d].tries > 0
        /\ calls[c].cache_seen = <<>> /\ calls[d].cache_seen = <<>>
        /\ metrics.total_detections = 2

\* C24: clear_cache empties the result cache and changes nothing else (the
\* counters, the tables, the registry and the calls in progress are as they
\* were); as long as no result has been cached since, the cache is empty,
\* and a request that looks in it finds nothing for its image and goes on to
\* the provider, whatever was cached for that image before the clear.
C24_ClearCacheOnlyEmptiesCache ==
    [][/\ (cache_cleared' /\ ~cache_cleared) =>
              /\ detection_cache' = <<>>
              /\ UNCHANGED <<metrics, detections_table, notifications_table,
                             plates_table, users_table, calls, config, batch>>
       /\ cache_cleared' => detection_cache' = <<>>
       /\ \A c \in Calls :
              (cache_cleared /\ calls[c].pc = "cache" /\ calls'[c] # calls[c]) =>
                  /\ calls'[c].pc = "attempt"
                  /\ calls'[c].cache_seen = <<>>
                  /\ metrics' = metrics]_vars

\* C24, a state where it matters: a request returned and cached its result,
\* the cache was cleared, and the next request for the same image, made
\* within the TTL of that result, found nothing in the cache and called the
\* provider; the counters show two detections and no cache hit.
C24_Witness ==
    \E c, d \in Calls :
        /\ c < d /\ calls[c].image_url = calls[d].image_url
        /\ calls[c].pc = "done" /\ calls[c].tries > 0
        /\ calls[d].pc = "done" /\ calls[d].cache_seen = <<>>
        /\ calls[d].primary_calls = 1
        /\ calls[d].checked_at - calls[c].cached_at < cache_duration
        /\ metrics.total_detections = 2 /\ metrics.cache_hits = 0
        /\ Len(detections_table) = 2

\* Two fractions are the same number.
FracEq(x, y) == x.n * y.d = y.n * x.d

\* C25: the lexical similarity of a plate with itself is 1.0, and the score
\* of two plates does not depend on their order: whenever a scan has scored
\* the detected plate against a registered one, the score of the registered
\* plate against the detected one is the same.
C25_SimilarityReflexiveSymmetric ==
    \A c \in Calls :
        JustScanned(c) =>
            \A i \in DOMAIN calls[c].seen_plates :
                LET a == calls[c].detection.plate_number
                    b == calls[c].seen_plates[i].plate
                IN  /\ FracEq(calculate_similarity(a, a), One)
                    /\ FracEq(calculate_similarity(b, b), One)
                    /\ FracEq(calculate_similarity(a, b), calculate_similarity(b, a))

\* The pairs of characters an OCR engine takes for one another.
LookAlikes ==
    { {"0", "O"}, {"1", "I"}, {"5", "S"}, {"6", "G"}, {"8", "B"}, {"2", "Z"} }

\* Two plate texts that are not the same text (case ignored) and differ only
\* in places where one has a character and the other its look-alike.
DifferByLookAlikes(a, b) ==
    /\ Len(a) = Len(b)
    /\ Upper(a) # Upper(b)
    /\ \A k \in 1..Len(a) :
           Upper(a)[k] = Upper(b)[k] \/ {Upper(a)[k], Upper(b)[k]} \in LookAlikes

StepRank(pc) ==
    CASE pc = "validate" -> 1
      [] pc = "cache" -> 2
      [] pc \in {"attempt", "backoff"} -> 3
      [] pc = "extract" -> 4
      [] pc = "match" -> 5
      [] pc \in {"sms", "sms_sleep", "notify"} -> 6
      [] pc = "store" -> 7
      [] pc = "done" -> 8
      [] OTHER -> 0

\* The rows of the detections table after the step that call c inserted.
RowsOfNext(c) == {i \in DOMAIN detections_table' : detections_table'[i].call = c}

Evicted == {j \in DOMAIN detection_cache :
               \A i \in DOMAIN detection_cache' :
                   detection_cache'[i].key # detection_cache[j].key}

\* C28: the cache never holds more than 100 entries after a put.  A put that
\* makes it 101 evicts exactly 20 entries, none of them newer than an entry
\* that stays, and not the one just written; any other put evicts nothing.
C28_PutKeepsCacheBounded ==
    [][\A c \in Calls :
          (calls[c].pc = "store" /\ calls'[c].pc = "done") =>
              LET key == generate_cache_key(calls[c].image_url)
                  grows == CacheIndex(detection_cache, key) = 0
                  i == CacheIndex(detection_cache', key)
              IN  /\ Len(detection_cache') <= CacheLimit
                  /\ i # 0
                  /\ detection_cache'[i].result = calls'[c].result
                  /\ detection_cache'[i].timestamp = now
                  /\ IF grows /\ Len(detection_cache) = CacheLimit
                     THEN /\ Cardinality(Evicted) = CacheEvict
                          /\ Len(detection_cache') = CacheLimit + 1 - CacheEvict
                          /\ \A j \in Evicted :
                                 \A k \in DOMAIN detection_cache \ Evicted :
                                     detection_cache[j].timestamp
                                         <= detection_cache[k].timestamp
                     ELSE /\ Evicted = {}
                          /\ Len(detection_cache') =
                                 Len(detection_cache) + (IF grows THEN 1 ELSE 0)]_vars

\* C28, a state where it matters: a request put the 101st entry into a cache
\* whose first entry was the newest of the hundred; the cache now holds 81
\* entries, the first one and the new one among them.
C28_Witness ==
    \E c \in Calls :
        /\ calls[c].pc = "done" /\ calls[c].tries > 0
        /\ Len(detection_cache) = CacheLimit + 1 - CacheEvict
        /\ CacheIndex(detection_cache, generate_cache_key(NumberedUrl(1))) # 0
        /\ CacheIndex(detection_cache, generate_cache_key(NumberedUrl(2))) = 0
        /\ CacheIndex(detection_cache, generate_cache_key(calls[c].image_url)) # 0

\* C29: the backup provider is called only when one is configured, never on
\* the first attempt, and only after at least one attempt has failed: every
\* attempt before the one that calls it has failed.
C29_BackupOnlyAfterFailure ==
    [][\A c \in Calls :
          calls'[c].backup_calls > calls[c].backup_calls =>
              /\ config.backup_api_key
              /\ calls[c].attempt >= 1
              /\ calls[c].tries >= 1
              /\ calls[c].failed_tries = calls[c].tries
              /\ calls'[c].backup_calls = calls[c].backup_calls + 1]_vars

\* C29, a state where it matters: the primary provider answered with an
\* invalid response twice, and the second attempt went on to the backup
\* provider.
C29_Witness ==
    \E c \in Calls :
        /\ config.backup_api_key /\ config.roboflow_api_key
        /\ calls[c].tries = 2 /\ calls[c].primary_calls = 2
        /\ calls[c].backup_calls = 1

\* C30: with a backup provider configured, a call whose primary provider
\* failed on every attempt, raising or answering with an invalid response,
\* does not fail with "All detection attempts failed" before the backup
\* provider has been tried.
C30_BackupTriedBeforeFailure ==
    \A c \in Calls :
        (/\ config.backup_api_key /\ config.roboflow_api_key
         /\ max_retries >= 2
         /\ calls[c].error.message = "All detection attempts failed"
         /\ calls[c].primary_calls = calls[c].failed_tries)
            => calls[c].backup_calls >= 1

\* C31: a response handed on to extraction is never empty, has no error
\* marker and has its outputs container; every other answer of a provider
\* ends the attempt as a failure, and failed attempts are counted alike
\* whether the provider raised or answered with an invalid response: a call
\* about to try again has failed as often as the index of its next attempt,
\* a call asleep between attempts once more than the index of its last.
C31_InvalidResponseIsAFailedAttempt ==
    \A c \in Calls :
        /\ calls[c].pc = "extract" =>
               /\ ~IsEmptyDict(calls[c].response)
               /\ calls[c].response.error = <<>>
               /\ calls[c].response.outputs # <<>>
               /\ calls[c].last_outcome = "valid"
               /\ calls[c].tries = calls[c].failed_tries + 1
        /\ calls[c].pc = "attempt" =>
               /\ calls[c].failed_tries = calls[c].attempt
               /\ calls[c].tries = calls[c].attempt
        /\ calls[c].pc = "backoff" =>
               /\ calls[c].failed_tries = calls[c].attempt + 1
               /\ calls[c].tries = calls[c].attempt + 1
               /\ calls[c].last_outcome \in {"invalid", "raised"}
        /\ calls[c].failed_tries <= max_retries

\* C31, a state where it matters: the primary provider answered, the answer
\* was not valid, and the call waits for its second attempt.
C31_Witness ==
    \E c \in Calls :
        /\ config.roboflow_api_key
        /\ calls[c].pc = "backoff" /\ calls[c].last_outcome = "invalid"
        /\ calls[c].primary_calls = 1 /\ calls[c].failed_tries = 1

\* C32: the sleeps of the provider retry loop double: the sleep after the
\* k-th failed attempt is 2^(k-1) seconds (1, then 2), every failed attempt
\* but the last one allowed is followed by one, and the last by none.
C32_BackoffDoubles ==
    \A c \in Calls :
        /\ \A k \in DOMAIN calls[c].waits : calls[c].waits[k] = 2 ^ (k - 1)
        /\ Len(calls[c].waits) =
               IF calls[c].failed_tries < max_retries THEN calls[c].failed_tries
               ELSE max_retries - 1

\* C32, a state where it matters: all attempts of a call failed; it slept 1
\* second, then 2, and not again after the third.
C32_Witness ==
    \E c \in Calls :
        /\ calls[c].failed_tries = max_retries
        /\ calls[c].error.message = "All detection attempts failed"
        /\ calls[c].waits = <<1, 2>>

\* C33: for one notification send_sms is called at most three times, not
\* again after a send that succeeded, with a sleep of k seconds after the
\* k-th failed send and none after the third; three sends happen also for
\* a call whose provider answered on the first attempt.
C33_SmsRetriesAreItsOwn ==
    \A c \in Calls :
        /\ calls[c].sms_calls <= 3
        /\ calls[c].pc \in {"sms", "sms_sleep"} => ~calls[c].sms_sent
        /\ calls[c].sms_sent => Len(calls[c].sms_waits) = calls[c].sms_calls - 1
        /\ \A k \in DOMAIN calls[c].sms_waits : calls[c].sms_waits[k] = k
        /\ Len(calls[c].sms_waits) =
               IF calls[c].pc \in {"sms", "sms_sleep"} THEN calls[c].sms_calls
               ELSE IF calls[c].sms_calls = 0 THEN 0
               ELSE calls[c].sms_calls - 1
        /\ (calls[c].sms_calls > 0 /\ calls[c].pc \notin {"sms", "sms_sleep"}
                /\ ~calls[c].sms_sent) => calls[c].sms_calls = 3

\* C33, a state where it matters: the provider answered at once, and all
\* three sends of the SMS failed, with sleeps of 1 and 2 seconds between.
C33_Witness ==
    \E c \in Calls :
        /\ calls[c].tries = 1 /\ calls[c].waits = <<>>
        /\ calls[c].sms_calls = 3 /\ ~calls[c].sms_sent
        /\ calls[c].sms_waits = <<1, 2>>
        /\ calls[c].pc = "done"

\* ------------------------------------------------- requests after a failure
\* Requests made one after the other for two images, each answered by a
\* provider that may raise, report the registered plate, or report a text
\* that is no plate.
AnswerGarbage ==
    Answer(Response(<<>>, << <<DictData(RawGarbage, <<95>>)>> >>, <<>>, <<>>, <<>>))
FailureOutcomes == {Raised, AnswerRegistered, AnswerGarbage}

InitFailure == InitWith(FailureCalls, CacheConfigs)

NextFailure ==
    \/ \E u \in ClearUrls, id \in DetectionIds : Quiet /\ ProcessDetection(u, id)
    \/ \E c \in Calls : Validate(c)
    \/ \E c \in Calls : CheckCache(c)
    \/ \E c \in Calls, o \in FailureOutcomes : Attempt(c, o)
    \/ \E c \in Calls : AttemptsExhausted(c)
    \/ \E c \in Calls : Wake(c)
    \/ \E c \in Calls : Extract(c)
    \/ \E c \in Calls : Match(c, TRUE)
    \/ \E c \in Calls : SendSms(c, TRUE)
    \/ \E c \in Calls : Notify(c, TRUE)
    \/ \E c \in Calls : Store(c, TRUE)
    \/ \E c \in Calls : Fail(c, TRUE, calls[c].id)

SpecFailure == InitFailure /\ [][NextFailure]_vars

\* C34: every cache entry is the result of a call that returned it, under
\* the key of that call's image; so a call that finds an entry for its image
\* is not finding what a raising call left, and a call for an image whose
\* only earlier calls raised goes on to the provider.
C34_OnlySuccessesCached ==
    /\ \A i \in 1..Len(detection_cache) :
           \E c \in Calls :
               /\ calls[c].pc = "done"
               /\ calls[c].cache_seen = <<>>
               /\ detection_cache[i].key = generate_cache_key(calls[c].image_url)
               /\ detection_cache[i].result = calls[c].result
    /\ \A c \in Calls :
           (/\ calls[c].pc \notin {"idle", "gate", "validate", "cache"}
            /\ \A d \in Calls \ {c} :
                   calls[d].image_url = calls[c].image_url => calls[d].pc = "raised")
           => /\ calls[c].cache_seen = <<>>
              /\ calls[c].pc \in {"done", "raised"} => calls[c].primary_calls > 0

\* C34, a state where it matters: a call for an image raised after the
\* provider was asked, and a later call for the same image has asked the
\* provider again.
C34_Witness ==
    \E c, d \in Calls :
        /\ c # d /\ calls[c].image_url = calls[d].image_url
        /\ calls[c].pc = "raised" /\ calls[c].primary_calls > 0
        /\ calls[d].checked_at >= 0 /\ calls[d].cache_seen = <<>>
        /\ calls[d].primary_calls > 0 /\ calls[d].pc = "done"
        /\ Len(detection_cache) = 1

\* C35 as stated: every entry of the list a scan returns carries the scores
\* of its own plate: confidence and similarity score 1.0 when the plate is
\* the detected one, and otherwise the higher of the lexical and the
\* pattern-corrected score of that plate against the detected one.  Two
\* plates of one owner break it: the pattern score of the second is written
\* into the entry of the first.
C35_EntryCarriesOwnScore ==
    \A c \in Calls :
        JustScanned(c) =>
            \A k \in 1..Len(calls[c].matches) :
                \E i \in Eligible(c) :
                    /\ calls[c].seen_plates[i].plate = calls[c].matches[k].plate_number
                    /\ LET own == IF IsExact(c, i) THEN One
                                  ELSE FracMax(Lexical(c, i), Corrected(c, i))
                       IN  /\ FracEq(calls[c].matches[k].confidence, own)
                           /\ FracEq(calls[c].matches[k].similarity_score, own)

\* ------------------------------------------------------ processing times
\* Requests made one after the other, while time passes: a detection takes
\* whatever time has passed between its start and its _update_metrics.
InitAverage == InitWith(AverageCalls, CacheConfigs)

NextAverage ==
    \/ \E u \in ClearUrls, id \in DetectionIds : Quiet /\ ProcessDetection(u, id)
    \/ \E c \in Calls : Validate(c)
    \/ \E c \in Calls : CheckCache(c)
    \/ \E c \in Calls, o \in {AnswerRegistered, AnswerGarbage} : Attempt(c, o)
    \/ \E c \in Calls : Extract(c)
    \/ \E c \in Calls : Match(c, TRUE)
    \/ \E c \in Calls : SendSms(c, TRUE)
    \/ \E c \in Calls : Notify(c, TRUE)
    \/ \E c \in Calls : Store(c, TRUE)
    \/ \E c \in Calls : Fail(c, TRUE, calls[c].id)
    \/ Tick

SpecAverage == InitAverage /\ [][NextAverage]_vars

\* The calls that ran a detection to its successful end, and the sum of
\* their processing times.
Successes == {c \in Calls : calls[c].pc = "done" /\ calls[c].cache_seen = <<>>}
RECURSIVE SumOfTimes(_)
SumOfTimes(S) ==
    IF S = {} THEN 0
    ELSE LET c == CHOOSE x \in S : TRUE
         IN  calls[c].processing_time + SumOfTimes(S \ {c})

\* C36 as stated: the average reported is the mean processing time of the
\* successful detections (0 when there is none), whatever failed in between.
\* A failure after a success breaks it: its processing time replaces a share
\* of the average.
C36_AverageOfSuccessesOnly ==
    Quiet =>
        IF Successes = {}
        THEN metrics.average_processing_time.n = 0
        ELSE metrics.average_processing_time.n * Cardinality(Successes)
                 = SumOfTimes(Successes) * metrics.average_processing_time.d

\* ------------------------------------------------- cameras and locations
\* Requests made one after the other for two images, from cameras and
\* places a request may name or leave out.
Cameras == {<<>>, <<"">>, <<"cam-1">>, <<"cam-2">>}
Locations == {<<>>, <<"gate">>}

InitCamera == InitWith(CameraCalls, CacheConfigs)

NextCamera ==
    \/ \E u \in ClearUrls, k \in Cameras, l \in Locations, id \in DetectionIds :
           Quiet /\ ProcessRequest(u, k, l, id)
    \/ \E c \in Calls : Validate(c)
    \/ \E c \in Calls : CheckCache(c)
    \/ \E c \in Calls : Attempt(c, AnswerRegistered)
    \/ \E c \in Calls : Extract(c)
    \/ \E c \in Calls : Match(c, TRUE)
    \/ \E c \in Calls : SendSms(c, TRUE)
    \/ \E c \in Calls : Notify(c, TRUE)
    \/ \E c \in Calls : Store(c, TRUE)

SpecCamera == InitCamera /\ [][NextCamera]_vars

\* The camera a result created for call c is to carry.
CameraOf(c) ==
    IF calls[c].camera_id \in {<<>>, <<"">>} THEN <<"default">> ELSE calls[c].camera_id

\* C37 (as amended): a result a call creates carries the camera of its
\* request ("default" when it names none) and its location; a result served
\* from the cache is the result of the earlier call for that image as it was
\* cached, with that call's id, camera and location.
C37_ResultCarriesCreatorsCamera ==
    \A c \in Calls :
        calls[c].pc = "done" =>
            IF calls[c].cache_seen = <<>>
            THEN /\ calls[c].result.camera_id = CameraOf(c)
                 /\ calls[c].result.location = calls[c].location
                 /\ calls[c].result.id = calls[c].id
            ELSE \E d \in Calls \ {c} :
                     /\ calls[d].pc = "done" /\ calls[d].cache_seen = <<>>
                     /\ calls[d].image_url = calls[c].image_url
                     /\ calls[c].result = calls[d].result
                     /\ calls[c].result.camera_id = CameraOf(d)
                     /\ calls[c].result.location = calls[d].location

\* C37, a state where it matters: an image was detected for a request that
\* names no camera, at the gate, and served from the cache to a request of
\* cam-2 that names no place.
C37_Witness ==
    \E c, d \in Calls :
        /\ calls[d].pc = "done" /\ calls[d].cache_seen = <<>>
        /\ calls[d].camera_id = <<>> /\ calls[d].location = <<"gate">>
        /\ calls[c].pc = "done" /\ calls[c].cache_seen # <<>>
        /\ calls[c].camera_id = <<"cam-2">> /\ calls[c].location = <<>>
        /\ calls[c].result.camera_id = <<"default">>
        /\ calls[c].result.location = <<"gate">>

\* C37 as stated: every result returned carries the camera and the location
\* of the request it is returned for.  A cache hit for an image first
\* detected for another camera or place breaks it.
C37_AsStated ==
    \A c \in Calls :
        calls[c].pc = "done" =>
            /\ calls[c].result.camera_id = CameraOf(c)
            /\ calls[c].result.location = calls[c].location

\* ------------------------------------------------------ a batch that ends
\* A batch whose provider and SMS calls all return.  The event loop runs a
\* task that is ready: a step of the batch is taken whenever one can be.
BatchStep ==
    \/ \E c \in Calls, id \in DetectionIds : Admit(c, id)
    \/ \E c \in Calls : Validate(c)
    \/ \E c \in Calls : CheckCache(c)
    \/ \E c \in Calls : Attempt(c, AnswerRegistered)
    \/ \E c \in Calls : Extract(c)
    \/ \E c \in Calls : Match(c, TRUE)
    \/ \E c \in Calls : SendSms(c, TRUE)
    \/ \E c \in Calls : Notify(c, TRUE)
    \/ \E c \in Calls : Store(c, TRUE)
    \/ \E c \in Calls, id \in DetectionIds : Fail(c, TRUE, id)

NextBatchFair ==
    \/ \E requests \in BatchInputs, m \in ConcurrencyInputs : ProcessBatch(requests, m)
    \/ BatchStep

\* A step of the batch can be taken: the running task is not finished, or no
\* task runs and one waits at a semaphore that has a slot.
CanStep ==
    \/ \E c \in Calls :
           /\ cur = c
           /\ calls[c].pc \in {"validate", "cache", "attempt", "extract", "match",
                               "sms", "notify", "store", "error"}
    \/ /\ cur = 0
       /\ batch.semaphore > 0
       /\ \E c \in Calls : calls[c].pc = "gate"

\* Weak fairness of BatchStep, with CanStep written out for
\* ENABLED <<BatchStep>>_vars.
BatchStepFair == []<>(~CanStep) \/ []<><<BatchStep>>_vars

\* The event loop lets a waiting task into a semaphore that has a slot, and
\* runs every task that is ready.
AdmitStep == \E c \in Calls, id \in DetectionIds : Admit(c, id)

SpecBatchFair ==
    InitBatch /\ [][NextBatchFair]_vars /\ WF_vars(AdmitStep) /\ BatchStepFair

\* C38 as stated: a batch that passed the size checks ends with its list of
\* results, whatever max_concurrent is.  max_concurrent = 0 breaks it: the
\* semaphore starts at 0, no task ever enters, and the gather never returns;
\* so does a negative one, for which the semaphore cannot be built.
C38_AcceptedBatchReturns ==
    (batch.status \in {"running", "failed"}) ~> (batch.status = "returned")

\* C39 (as amended): a request of a batch is served from the cache exactly
\* when, at its cache check, another request for the same image has already
\* returned; it then calls no provider and writes no record.  Every other
\* request that returns has called the provider and written its own
\* DetectionResult, and its own NotificationRecord when it matched, also when
\* another request for the same image does the same.
C39_CacheServesOnlyAfterReturn ==
    /\ [](\A c \in Calls :
             (calls[c].pc = "done" /\ calls[c].batch_index # 0) =>
                 IF calls[c].cache_seen # <<>>
                 THEN /\ calls[c].primary_calls = 0
                      /\ RowsOf(c) = {} /\ NotificationsOf(c) = {}
                      /\ \E d \in Calls \ {c} :
                             /\ calls[d].pc = "done" /\ calls[d].cache_seen = <<>>
                             /\ calls[d].image_url = calls[c].image_url
                             /\ calls[d].result = calls[c].result
                 ELSE /\ calls[c].primary_calls >= 1
                      /\ Cardinality(RowsOf(c)) = 1
                      /\ Cardinality(NotificationsOf(c)) =
                             IF calls[c].result.matched_user_id # 0 THEN 1 ELSE 0)
    /\ [][\A c \in Calls :
             (calls[c].pc = "cache" /\ calls'[c].pc # "cache") =>
                 (calls'[c].pc = "done" <=>
                     \E d \in Calls \ {c} :
                         /\ calls[d].pc = "done"
                         /\ calls[d].image_url = calls[c].image_url)]_vars

\* C39, a state where it matters: two requests of a batch for the same image
\* both missed the cache, both called the provider, and each wrote its
\* DetectionResult and its NotificationRecord.
C39_Witness ==
    \E c, d \in Calls :
        /\ c # d /\ calls[c].image_url = calls[d].image_url
        /\ calls[c].batch_index # 0 /\ calls[d].batch_index # 0
        /\ calls[c].pc = "done" /\ calls[d].pc = "done"
        /\ calls[c].primary_calls > 0 /\ calls[d].primary_calls > 0
        /\ Cardinality(RowsOf(c)) = 1 /\ Cardinality(RowsOf(d)) = 1
        /\ Cardinality(NotificationsOf(c)) = 1 /\ Cardinality(NotificationsOf(d)) = 1

\* C39 as stated: of two requests of a batch for the same image only one
\* calls the provider, and the image gets at most one DetectionResult and
\* one NotificationRecord.  A second request that looks in the cache while
\* the first sleeps between two attempts breaks it.
C39_AsStated ==
    \A c, d \in Calls :
        (/\ c # d /\ calls[c].image_url = calls[d].image_url
         /\ calls[c].batch_index # 0 /\ calls[d].batch_index # 0) =>
            /\ calls[c].primary_calls = 0 \/ calls[d].primary_calls = 0
            /\ Cardinality(RowsOf(c) \cup RowsOf(d)) <= 1
            /\ Cardinality(NotificationsOf(c) \cup NotificationsOf(d)) <= 1

====
